---- MODULE Spec2Model ----
(***************************************************************************)
(* Launch Sidebar: the recency store, the visibility store, the package    *)
(* manager resolver and the source readers of the tree provider, modelled  *)
(* from the TypeScript sources.                                            *)
(***************************************************************************)
EXTENDS Integers, Sequences, FiniteSets, TLC

VARIABLES
  recentItems,     \* RecentItemsManager.recentItems, most recent first
  hiddenItems,     \* HiddenItemsManager._hiddenItems
  hiddenSections,  \* HiddenItemsManager._hiddenSections
  workspace,       \* what the scan reads: the open folders and their files
  last,            \* the last operation: its name, argument, pre-state, result
  steps,           \* operations performed so far
  globalState,     \* context.globalState: the value stored under each key
  writes,          \* globalState.update calls issued and not completed, oldest first
  terminals,       \* TerminalManager.terminals: the terminal kept for each key
  window,          \* vscode.window: its open terminals, the number of terminals
                   \* created, the close events not yet delivered
  scans            \* the getChildren calls in flight or returned: where each
                   \* stands and the array it fills

vars == <<recentItems, hiddenItems, hiddenSections, workspace, last, steps, globalState, writes,
          terminals, window, scans>>

(***************************************************************************)
(* Bounds of the model.                                                    *)
(***************************************************************************)
MaxName == 3
MaxSteps == 2

(***************************************************************************)
(* Generic helpers on sequences.                                           *)
(***************************************************************************)
Range(s) == {s[i] : i \in 1..Len(s)}

RECURSIVE Filter(_, _)
\* Array.prototype.filter with the predicate given as the set of kept values
Filter(s, keep) ==
  IF s = <<>> THEN <<>>
  ELSE IF Head(s) \in keep THEN <<Head(s)>> \o Filter(Tail(s), keep)
       ELSE Filter(Tail(s), keep)

NoLast == [op |-> "none"]

\* no terminal was opened yet
NoWindow == [terminals |-> {}, created |-> 0, closed |-> 0]

\* the element of getChildren(): undefined
NoElement == [sectionType |-> <<>>, folder |-> 0, path |-> <<>>]

\* a getChildren call that was not made. at: the stretches of getSections
\* run so far; sections, items: the arrays of the call; seen: the stores as
\* they were when the call was made; overlapped: another call was in flight
\* then
NoScan ==
  [pc |-> "idle", element |-> NoElement, at |-> 0, sections |-> <<>>, items |-> <<>>,
   result |-> <<>>, seen |-> <<>>, overlapped |-> FALSE]

NoScans == <<NoScan, NoScan>>

IdleWorkspace == [kind |-> "none"]

(***************************************************************************)
(* Recency store: src/src/models/recent-items.ts                           *)
(***************************************************************************)
MAX_RECENT_ITEMS == 10

\* item.constructor.name of the four launchable item classes
Kinds == <<"LaunchConfigurationItem", "ScriptItem", "JetBrainsRunConfigItem", "MakefileTaskItem">>

Folders == {"a", "b"}

Names == 1..MaxName

\* a launchable item as far as the recency store looks at it
Items == [name : Names, kind : Range(Kinds), folder : Folders]

\* existing.name === item.name && existing.constructor.name === item.constructor.name
SameIdentity(x, y) == x.name = y.name /\ x.kind = y.kind

Present(list, item) == \E i \in 1..Len(list) : SameIdentity(list[i], item)

Without(list, item) == Filter(list, {x \in Range(list) : ~SameIdentity(x, item)})

\* the mutant: the list is not truncated after the insert
addRecentItemNoPop(list, item) == <<item>> \o Without(list, item)

\* the mutant: the existing entry is not filtered out before the insert
addRecentItemNoFilter(list, item) ==
  LET added == <<item>> \o list
  IN  IF Len(added) > MAX_RECENT_ITEMS THEN SubSeq(added, 1, Len(added) - 1) ELSE added

\* RecentItemsManager.addRecentItem: filter, unshift, pop when over capacity
addRecentItem(list, item) ==
  LET added == <<item>> \o Without(list, item)
  IN  IF Len(added) > MAX_RECENT_ITEMS THEN SubSeq(added, 1, Len(added) - 1) ELSE added

\* RecentItemsManager.removeRecentItem
removeRecentItem(list, item) == Without(list, item)

\* ScriptItem and MakefileTaskItem have an execute() method, which runs the
\* command that records the item once more
HasExecute(item) == item.kind \in {"ScriptItem", "MakefileTaskItem"}

\* RecentItemWrapper.execute: record the wrapped item, then execute it
wrapperExecute(list, item) ==
  LET once == addRecentItem(list, item)
  IN  IF HasExecute(item) THEN addRecentItem(once, item) ELSE once

\* the j-th identity of a fixed enumeration, all under folder "a"
CanonItem(j) ==
  [name |-> ((j - 1) % MaxName) + 1,
   kind |-> Kinds[(((j - 1) \div MaxName) % Len(Kinds)) + 1],
   folder |-> "a"]

\* the lists loadRecentItems can rebuild: what saveRecentItems stored
LoadedLists == {[j \in 1..k |-> CanonItem(j)] : k \in 0..MAX_RECENT_ITEMS}


(***************************************************************************)
(* Package manager resolver: src/unnamed/part_003 (utils/package-manager)  *)
(***************************************************************************)
\* String.prototype.includes on strings given as sequences of characters
Includes(text, pat) ==
  \E i \in 1..(Len(text) - Len(pat) + 1) : SubSeq(text, i, i + Len(pat) - 1) = pat

RECURSIVE Join(_, _)
\* Array.prototype.join
Join(parts, sep) ==
  IF parts = <<>> THEN <<>>
  ELSE IF Len(parts) = 1 THEN parts[1]
  ELSE parts[1] \o sep \o Join(Tail(parts), sep)

PnpmSpace == <<"p", "n", "p", "m", " ">>
YarnSpace == <<"y", "a", "r", "n", " ">>
NpmSpace == <<"n", "p", "m", " ">>

\* script bodies: "pnpm x", "yarn x", "npm x", "tsc"
PnpmRun == PnpmSpace \o <<"x">>
YarnRun == YarnSpace \o <<"x">>
NpmRun == NpmSpace \o <<"x">>
TscRun == <<"t", "s", "c">>

\* path.resolve(packageDir, '../..'): two levels up, stopping at the filesystem root
Up2(dir) == SubSeq(dir, 1, IF Len(dir) >= 2 THEN Len(dir) - 2 ELSE 0)

\* path.relative(workspaceRoot, packageDir) === ''
isRootPackage(packageDir) == Up2(packageDir) = packageDir

\* the lock files fs.existsSync finds in a directory
LocksAt(ws, dir) == IF dir \in DOMAIN ws.locks THEN ws.locks[dir] ELSE {}

\* the pnpm-lock.yaml / yarn.lock / package-lock.json cascade
LockManager(locks) ==
  IF "pnpm-lock.yaml" \in locks THEN "pnpm"
  ELSE IF "yarn.lock" \in locks THEN "yarn"
  ELSE IF "package-lock.json" \in locks THEN "npm"
  ELSE "undefined"

\* detectRootPackageManager(workspacePath)
detectRootPackageManager(ws, workspacePath) == LockManager(LocksAt(ws, workspacePath))

\* the script heuristic: includes('pnpm ') && !includes('npm '), then yarn
ScriptManager(scripts) ==
  LET scriptValues == Join(scripts, <<" ">>)
  IN  IF Includes(scriptValues, PnpmSpace) /\ ~Includes(scriptValues, NpmSpace) THEN "pnpm"
      ELSE IF Includes(scriptValues, YarnSpace) /\ ~Includes(scriptValues, NpmSpace) THEN "yarn"
      ELSE "undefined"

\* the engines cascade: npm, then yarn, then pnpm
EnginesManager(engines) ==
  IF "npm" \in engines THEN "npm"
  ELSE IF "yarn" \in engines THEN "yarn"
  ELSE IF "pnpm" \in engines THEN "pnpm"
  ELSE "undefined"

\* the packageManager field, lower-cased, by its prefix
DeclaredManager(decl) ==
  IF decl = "pnpm@" THEN "pnpm"
  ELSE IF decl = "yarn@" THEN "yarn"
  ELSE IF decl = "npm@" THEN "npm"
  ELSE "undefined"

\* Strategy 1: what the manifest itself says; "undefined" when the file is
\* absent, does not parse, or says nothing
ManifestManager(m) ==
  IF m.state # "ok" THEN "undefined"
  ELSE IF DeclaredManager(m.packageManager) # "undefined" THEN DeclaredManager(m.packageManager)
  ELSE IF EnginesManager(m.engines) # "undefined" THEN EnginesManager(m.engines)
  ELSE IF m.hasScripts THEN ScriptManager(m.scripts)
  ELSE "undefined"

\* the mutant: the inherited choice is never used
detectPackageManagerNoInherit(ws, packageDir, rootLockfileManager) ==
  IF ManifestManager(ws.manifest) # "undefined"
  THEN [pm |-> ManifestManager(ws.manifest), via |-> "manifest", consulted |-> {packageDir}]
  ELSE [pm |-> "npm", via |-> "default", consulted |-> {packageDir}]

\* detectPackageManager(packageJsonPath, rootLockfileManager) with
\* packageDir = path.dirname(packageJsonPath); the result carries the step
\* that decided and the directories whose files were looked at
detectPackageManager(ws, packageDir, rootLockfileManager) ==
  LET workspaceRoot == Up2(packageDir)
  IN  IF rootLockfileManager # "undefined" /\ ~isRootPackage(packageDir)
      THEN [pm |-> rootLockfileManager, via |-> "inherited", consulted |-> {}]
      ELSE IF ManifestManager(ws.manifest) # "undefined"
      THEN [pm |-> ManifestManager(ws.manifest), via |-> "manifest", consulted |-> {packageDir}]
      ELSE IF LockManager(LocksAt(ws, packageDir)) # "undefined"
      THEN [pm |-> LockManager(LocksAt(ws, packageDir)), via |-> "lockfile",
            consulted |-> {packageDir}]
      ELSE IF isRootPackage(packageDir)
      THEN [pm |-> "npm", via |-> "default", consulted |-> {packageDir}]
      ELSE IF LockManager(LocksAt(ws, workspaceRoot)) # "undefined"
      THEN [pm |-> LockManager(LocksAt(ws, workspaceRoot)), via |-> "rootlock",
            consulted |-> {packageDir, workspaceRoot}]
      ELSE [pm |-> "npm", via |-> "default", consulted |-> {packageDir, workspaceRoot}]

\* where a workspace folder can sit: the filesystem root, one or two levels down
RootPaths == {<<>>, <<"h">>, <<"h", "w">>}

\* the manifests the tree provider scans: the root's and those one and two
\* directories below it
RelPaths == {<<>>, <<"p">>, <<"p", "q">>}

LockChoices == {{}, {"package-lock.json"}, {"yarn.lock"}, {"pnpm-lock.yaml", "yarn.lock"}}

Prefixes(path) == {SubSeq(path, 1, n) : n \in 0..Len(path)}

Manifests ==
  [state : {"ok"},
   packageManager : {"none", "pnpm@", "yarn@", "npm@", "other"},
   engines : {{}, {"yarn"}},
   hasScripts : {TRUE},
   scripts : {<<TscRun>>, <<PnpmRun>>, <<YarnRun, TscRun>>, <<YarnRun, NpmRun>>}]
  \cup
  [state : {"ok", "malformed", "absent"}, packageManager : {"none"}, engines : {{}},
   hasScripts : {FALSE}, scripts : {<<>>}]

PmWorkspaces ==
  UNION {
    [kind : {"pm"}, root : {root}, rel : {rel}, manifest : Manifests,
     locks : [Prefixes(root \o rel) -> LockChoices]]
    : root \in RootPaths, rel \in RelPaths}

PackageManagers == {"npm", "yarn", "pnpm"}



(***************************************************************************)
(* Claims about the recency store.                                         *)
(***************************************************************************)
NoDuplicateIdentity(list) ==
  \A i, j \in 1..Len(list) : i # j => ~SameIdentity(list[i], list[j])

\* C1: after any sequence of addRecentItem, removeRecentItem and
\* clearRecentItems calls from a loaded list of at most 10 entries the list
\* holds at most 10 entries; recording a task that is not present while 10
\* entries are present removes exactly the tail entry and keeps the order of
\* the others.
C1_CapacityAndTailEviction ==
  /\ Len(recentItems) <= MAX_RECENT_ITEMS
  /\ (last.op = "add" /\ Len(last.before) = MAX_RECENT_ITEMS
        /\ ~Present(last.before, last.item))
       => recentItems = <<last.item>> \o SubSeq(last.before, 1, MAX_RECENT_ITEMS - 1)

\* a full list has just received a task it did not hold
C1_Witness ==
  /\ last.op = "add"
  /\ Len(last.before) = MAX_RECENT_ITEMS
  /\ ~Present(last.before, last.item)
  /\ Len(recentItems) = MAX_RECENT_ITEMS

\* C2: after addRecentItem(t), also when the run was started from the
\* Recently Used section, t is the first entry and no two entries share a
\* (name, item kind) pair; recording a task that is already present keeps the
\* length of the list and the relative order of the other entries.
C2_FrontAndNoDuplicates ==
  /\ NoDuplicateIdentity(recentItems)
  /\ last.op \in {"add", "run"} =>
       /\ Len(recentItems) >= 1
       /\ recentItems[1] = last.item
       /\ Present(last.before, last.item) =>
            /\ Len(recentItems) = Len(last.before)
            /\ Tail(recentItems) = Without(last.before, last.item)

\* a task that was present further down the list has been run again from the
\* Recently Used section
C2_Witness ==
  /\ last.op = "run"
  /\ Len(last.before) >= 3
  /\ SameIdentity(last.before[3], last.item)
  /\ HasExecute(last.item)
  /\ recentItems[1] = last.item

(***************************************************************************)
(* Claims about the package manager resolver.                              *)
(***************************************************************************)
\* C5: a manifest whose explicit declaration names npm, yarn or pnpm gets
\* exactly the declared tool from the script reader, whatever lock files
\* exist beside the manifest or at the workspace root.
C5_DeclaredToolWins ==
  (/\ last.op = "getPackageScripts"
   /\ workspace.manifest.state = "ok"
   /\ DeclaredManager(workspace.manifest.packageManager) # "undefined")
    => last.result.pm = DeclaredManager(workspace.manifest.packageManager)

C7_TopLevelNeverLooksUp ==
  (/\ last.op \in {"getPackageScripts", "detectPackageManager"}
   /\ workspace.rel = <<>>)
    => /\ last.result.via # "inherited"
       /\ last.result.consulted \subseteq {workspace.root}

(***************************************************************************)
(* Strings of the tree provider are sequences of characters (a fixed word  *)
(* such as "package.json" is one element); the empty string is <<>>.       *)
(***************************************************************************)
Alphabet == <<"\t", " ", "#", "-", "/", ":", "=", "a", "b", "c", "e">>

CharRank(c) == CHOOSE i \in 1..Len(Alphabet) : Alphabet[i] = c

RECURSIVE localeCompareLess(_, _)
\* a.localeCompare(b) < 0, also the order of Array.prototype.sort() on keys
localeCompareLess(a, b) ==
  IF b = <<>> THEN FALSE
  ELSE IF a = <<>> THEN TRUE
  ELSE IF Head(a) = Head(b) THEN localeCompareLess(Tail(a), Tail(b))
  ELSE CharRank(Head(a)) < CharRank(Head(b))

NameLess(x, y) == localeCompareLess(x.name, y.name)

\* [...array].sort((a, b) => a.name.localeCompare(b.name)): stable
SortByName(s) ==
  LET before(i) == {j \in 1..Len(s) :
                      NameLess(s[j], s[i]) \/ (~NameLess(s[i], s[j]) /\ j < i)}
  IN  [p \in 1..Len(s) |-> s[CHOOSE i \in 1..Len(s) : Cardinality(before(i)) = p - 1]]

UpTo2(S) == {<<>>} \cup {<<x>> : x \in S} \cup {<<x, y>> : x, y \in S}

(***************************************************************************)
(* Tree items: src/unnamed/part_008, src/src/models/script-item.ts,        *)
(* src/unnamed/part_005                                                    *)
(***************************************************************************)
\* folder.uri.fsPath
FsPath(folder) == <<(IF folder.index = 1 THEN "/x" ELSE "/y"), "/">> \o folder.name

PackageJson == <<"package.json">>
MakefileName == <<"Makefile">>
RootDir == <<>>

\* the path of the manifest of a directory, relative to the folder
ManifestPath(dir) == IF dir = RootDir THEN PackageJson ELSE dir \o <<"/">> \o PackageJson

\* kind: item.constructor.name, the class the recency store tells items apart by
LaunchConfigurationItem(name, type, configuration, folder) ==
  [name |-> name, contextValue |-> "configuration", folder |-> folder.index, detail |-> type,
   kind |-> "LaunchConfigurationItem", configuration |-> configuration]

LaunchConfigurationErrorItem(folder) ==
  [name |-> <<>>, contextValue |-> "error", folder |-> folder.index, detail |-> <<>>,
   kind |-> "LaunchConfigurationErrorItem"]

\* detail: the script, shown as the description of the item
ScriptItem(name, script, packageJsonPath, folder, packageManager) ==
  [name |-> name, contextValue |-> "script", folder |-> folder.index, detail |-> script,
   kind |-> "ScriptItem", packageJsonPath |-> packageJsonPath,
   packageManager |-> packageManager]

\* run: the fields the provider passes on from the parsed configuration
JetBrainsRunConfigItem(config, folder) ==
  [name |-> config.name, contextValue |-> "jetbrains-run-config", folder |-> folder.index,
   detail |-> config.type, kind |-> "JetBrainsRunConfigItem", run |-> config]

MakefileTaskItem(name, makefilePath, folder, recipe) ==
  [name |-> name, contextValue |-> "makefile-task", folder |-> folder.index,
   detail |-> recipe, kind |-> "MakefileTaskItem", makefilePath |-> makefilePath]

(***************************************************************************)
(* Launch configurations reader                                            *)
(***************************************************************************)
TaskNames == {<<>>, <<"a">>, <<"b">>, <<"c">>}
ConfigTypes == {<<>>, <<"node">>, <<"go">>}
Compound == <<"compound">>

ConfigEntries == [name : TaskNames, type : ConfigTypes]
CompoundEntries == [name : TaskNames, hasConfigurations : BOOLEAN]

NoLaunchJson ==
  [exists |-> FALSE, readable |-> FALSE, configurations |-> <<>>, compounds |-> <<>>]

LaunchFiles ==
  [exists : {TRUE}, readable : {TRUE},
   configurations : UpTo2(ConfigEntries), compounds : UpTo2(CompoundEntries)]
  \cup {[exists |-> TRUE, readable |-> FALSE, configurations |-> <<>>, compounds |-> <<>>]}

\* the mutation of processRegularConfigurations that does not sort
processRegularConfigurationsUnsorted(file, folder) ==
  LET kept == SelectSeq(file.configurations,
                        LAMBDA config : config.name # <<>> /\ config.type # <<>>)
  IN  [i \in 1..Len(kept) |-> LaunchConfigurationItem(kept[i].name, kept[i].type, kept[i], folder)]

processRegularConfigurations(file, folder) ==
  LET sortedConfigs == SortByName(file.configurations)
      kept == SelectSeq(sortedConfigs, LAMBDA config : config.name # <<>> /\ config.type # <<>>)
  IN  [i \in 1..Len(kept) |-> LaunchConfigurationItem(kept[i].name, kept[i].type, kept[i], folder)]

\* the configuration made up for a compound
CompoundConfig(compound) ==
  [type |-> Compound, name |-> compound.name, request |-> "launch"]

processCompoundConfigurations(file, folder) ==
  LET sortedCompounds == SortByName(file.compounds)
      kept == SelectSeq(sortedCompounds,
                        LAMBDA compound : compound.name # <<>> /\ compound.hasConfigurations)
  IN  [i \in 1..Len(kept) |-> LaunchConfigurationItem(kept[i].name, Compound, CompoundConfig(kept[i]), folder)]

\* launch.readable: openTextDocument resolves. The content is parsed by the
\* platform behind getConfiguration, which hands over the configurations it
\* could read and reports no parse failure to the caller.
getLaunchConfigurations(folder) ==
  IF ~folder.launch.exists THEN <<>>
  ELSE IF ~folder.launch.readable THEN <<LaunchConfigurationErrorItem(folder)>>
  ELSE processRegularConfigurations(folder.launch, folder)
       \o processCompoundConfigurations(folder.launch, folder)

(***************************************************************************)
(* Package scripts reader: the names of the manifest's scripts, sorted     *)
(***************************************************************************)
RECURSIVE SortedKeys(_)
\* Object.keys(scripts).sort()
SortedKeys(keys) ==
  IF keys = {} THEN <<>>
  ELSE LET first == CHOOSE k \in keys : \A other \in keys : ~localeCompareLess(other, k)
       IN  <<first>> \o SortedKeys(keys \ {first})

\* packageJson.scripts[scriptName]: the manifests of the model give the script
\* c the empty command and every other script a command made of its name
ScriptCommand(scriptName) ==
  IF scriptName = <<"c">> THEN <<>> ELSE <<"e", " ">> \o scriptName

\* folder.packageManager: what detectPackageManager finds for the manifests of
\* the folder. folder.broken: the files of the folder whose content does not
\* parse; JSON.parse throws for such a manifest and the catch returns the
\* list, still empty.
getPackageScripts(folder, dir) ==
  IF dir \notin DOMAIN folder.packages THEN <<>>
  ELSE IF ManifestPath(dir) \in folder.broken THEN <<>>
  ELSE LET scriptNames == SortedKeys(folder.packages[dir])
       IN  [i \in 1..Len(scriptNames) |->
              ScriptItem(scriptNames[i], ScriptCommand(scriptNames[i]),
                         FsPath(folder) \o <<"/">> \o ManifestPath(dir), folder,
                         folder.packageManager)]

(***************************************************************************)
(* Makefile reader: getMakefileTasks                                       *)
(***************************************************************************)
Newline == <<"\n">>
IdentChars == {"a", "b", "c", "e", "-"}
SpaceChars == {" ", "\t", "\n"}

RECURSIVE Split(_)
\* String.prototype.split('\n')
Split(text) ==
  IF \A i \in 1..Len(text) : text[i] # "\n" THEN <<text>>
  ELSE LET i == CHOOSE k \in 1..Len(text) :
                  text[k] = "\n" /\ \A j \in 1..(k - 1) : text[j] # "\n"
       IN  <<SubSeq(text, 1, i - 1)>> \o Split(SubSeq(text, i + 1, Len(text)))

RECURSIVE trimStart(_)
trimStart(line) ==
  IF line # <<>> /\ Head(line) \in SpaceChars THEN trimStart(Tail(line)) ELSE line

RECURSIVE trimEnd(_)
trimEnd(line) ==
  IF line # <<>> /\ line[Len(line)] \in SpaceChars
  THEN trimEnd(SubSeq(line, 1, Len(line) - 1)) ELSE line

trim(line) == trimEnd(trimStart(line))

\* /^\s+/.test(line) && !/^\s*#/.test(line)
IsRecipeLine(line) ==
  /\ line # <<>> /\ Head(line) \in SpaceChars
  /\ ~(trimStart(line) # <<>> /\ Head(trimStart(line)) = "#")

\* the length of the longest prefix matching [a-zA-Z0-9_\-]+
IdentLen(line) ==
  Cardinality({k \in 1..Len(line) : \A j \in 1..k : line[j] \in IdentChars})

\* the length of the longest prefix matching [^=\n]*
RestLen(text) ==
  Cardinality({k \in 1..Len(text) : \A j \in 1..k : text[j] \notin {"=", "\n"}})

\* the length of match[0] of targetRegex at the start of a line, 0 if none
TargetMatchLen(line) ==
  LET n == IdentLen(line)
  IN  IF n > 0 /\ n < Len(line) /\ line[n + 1] = ":"
      THEN n + 1 + RestLen(SubSeq(line, n + 2, Len(line)))
      ELSE 0

RECURSIVE LineStart(_, _)
\* the offset in the text of the i-th line
LineStart(lines, i) ==
  IF i = 1 THEN 0 ELSE LineStart(lines, i - 1) + Len(lines[i - 1]) + 1

RECURSIVE RecipeLines(_)
\* the loop over the lines after the match: stops at the first line that is
\* not an indented command
RecipeLines(lines) ==
  IF lines # <<>> /\ IsRecipeLine(Head(lines))
  THEN <<trim(Head(lines))>> \o RecipeLines(Tail(lines))
  ELSE <<>>

\* the recipe computed for the target matched on the i-th line
RecipeOf(makefileContent, i) ==
  LET fileLines == Split(makefileContent)
      nextLineIdx == LineStart(fileLines, i) + TargetMatchLen(fileLines[i])
      lines == Split(SubSeq(makefileContent, nextLineIdx + 1, Len(makefileContent)))
  IN  Join(RecipeLines(lines), Newline)

getMakefileTasks(folder) ==
  IF ~folder.makefile.exists THEN <<>>
  ELSE LET makefileContent == folder.makefile.content
           fileLines == Split(makefileContent)
           targets == SelectSeq([i \in 1..Len(fileLines) |-> i],
                                LAMBDA i : TargetMatchLen(fileLines[i]) > 0)
       IN  [k \in 1..Len(targets) |->
              MakefileTaskItem(SubSeq(fileLines[targets[k]], 1, IdentLen(fileLines[targets[k]])),
                               FsPath(folder) \o <<"/">> \o MakefileName, folder,
                               RecipeOf(makefileContent, targets[k]))]

(***************************************************************************)
(* JetBrains run configurations: src/unnamed/part_002 and                  *)
(* hasJetBrainsRunConfigurations / getJetBrainsConfigurations              *)
(***************************************************************************)
ShConfigurationType == <<"ShConfigurationType">>

\* path.extname(file.name).toLowerCase() === '.xml'
IsXmlFile(file) == file.ext = ".xml"

GoApplication == <<"GoApplication">>
GoApplicationRunConfiguration == <<"GoApplication", "RunConfiguration">>
GoTest == <<"GoTest">>
GoTestRunConfiguration == <<"GoTest", "RunConfiguration">>
ProjectDir == "$PROJECT_DIR$"
True == <<"true">>
BinBash == <<"/bin/bash">>

RECURSIVE ReplaceProjectDir(_, _)
\* value.replace(/\$PROJECT_DIR\$/g, workspaceFolder.uri.fsPath)
ReplaceProjectDir(value, fsPath) ==
  IF value = <<>> THEN <<>>
  ELSE (IF Head(value) = ProjectDir THEN fsPath ELSE <<Head(value)>>)
       \o ReplaceProjectDir(Tail(value), fsPath)

\* the mutation of ReplaceProjectDir that replaces nothing
ReplaceNothing(value, fsPath) == value

\* an element <configuration name= type=> with no child: an absent or empty
\* attribute or child is <<>>
ConfigurationElement(name, type) ==
  [name |-> name, type |-> type, package |-> <<>>, working_directory |-> <<>>,
   go_parameters |-> <<>>, envs |-> <<>>, SCRIPT_TEXT |-> <<>>, SCRIPT_PATH |-> <<>>,
   SCRIPT_WORKING_DIRECTORY |-> <<>>, INTERPRETER_PATH |-> <<>>,
   EXECUTE_IN_TERMINAL |-> <<>>, EXECUTE_SCRIPT_FILE |-> <<>>, SCRIPT_OPTIONS |-> <<>>]

\* the base JetBrainsRunConfig: name and type, nothing else determined
BaseRunConfig(name, type) ==
  [name |-> name, type |-> type, packagePath |-> <<>>, command |-> <<>>,
   workingDirectory |-> <<>>, scriptText |-> <<>>, interpreter |-> <<>>,
   executeInTerminal |-> FALSE, executeScriptFile |-> FALSE, goParameters |-> <<>>,
   envVars |-> <<>>]

processShellConfiguration(config, runConfig, folder) ==
  [runConfig EXCEPT
     !.interpreter = IF config.INTERPRETER_PATH # <<>> THEN config.INTERPRETER_PATH
                     ELSE BinBash,
     !.scriptText = config.SCRIPT_TEXT,
     !.packagePath = ReplaceProjectDir(config.SCRIPT_PATH, FsPath(folder)),
     !.workingDirectory = ReplaceProjectDir(config.SCRIPT_WORKING_DIRECTORY, FsPath(folder)),
     !.executeInTerminal = (config.EXECUTE_IN_TERMINAL = True),
     !.executeScriptFile = (config.EXECUTE_SCRIPT_FILE = True),
     !.command = config.SCRIPT_OPTIONS]

processGoConfiguration(config, runConfig, folder) ==
  [runConfig EXCEPT
     !.packagePath = config.package,
     !.workingDirectory = ReplaceProjectDir(config.working_directory, FsPath(folder)),
     !.goParameters = config.go_parameters,
     !.envVars = config.envs]

processGoTestConfiguration(config, runConfig, folder) ==
  [runConfig EXCEPT
     !.packagePath = config.package,
     !.workingDirectory = ReplaceProjectDir(config.working_directory, FsPath(folder)),
     !.command = config.go_parameters]

processGeneralConfiguration(config, runConfig, folder) ==
  [runConfig EXCEPT
     !.workingDirectory = ReplaceProjectDir(config.working_directory, FsPath(folder))]

\* the dispatch on the type of one <configuration> that has a name and a type
RunConfigOf(config, folder) ==
  LET runConfig == BaseRunConfig(config.name, config.type)
  IN  IF config.type = ShConfigurationType
        THEN processShellConfiguration(config, runConfig, folder)
      ELSE IF Includes(config.type, GoApplication)
        THEN processGoConfiguration(config, runConfig, folder)
      ELSE IF Includes(config.type, GoTest)
        THEN processGoTestConfiguration(config, runConfig, folder)
      ELSE processGeneralConfiguration(config, runConfig, folder)

\* the configurations one XML file contributes: a file that does not parse
\* contributes none, a configuration without name or type is skipped
ParsedConfigurations(xmlFile, folder) ==
  IF ~xmlFile.parses THEN <<>>
  ELSE LET kept == SelectSeq(xmlFile.configurations,
                             LAMBDA config : config.name # <<>> /\ config.type # <<>>)
       IN  [i \in 1..Len(kept) |-> RunConfigOf(kept[i], folder)]

RECURSIVE parseXmlConfigurationFiles(_, _)
parseXmlConfigurationFiles(xmlFiles, folder) ==
  IF xmlFiles = <<>> THEN <<>>
  ELSE ParsedConfigurations(Head(xmlFiles), folder)
       \o parseXmlConfigurationFiles(Tail(xmlFiles), folder)

findConfigurationsInRunFolder(folder) ==
  IF ~folder.runDir.exists THEN <<>>
  ELSE parseXmlConfigurationFiles(SelectSeq(folder.runDir.files, IsXmlFile), folder)

findConfigurationsInIdeaFolder(folder) ==
  IF ~folder.ideaDir.exists THEN <<>>
  ELSE parseXmlConfigurationFiles(SelectSeq(folder.ideaDir.files, IsXmlFile), folder)

findRunConfigurations(folder) ==
  findConfigurationsInRunFolder(folder) \o findConfigurationsInIdeaFolder(folder)

getJetBrainsConfigurations(folder) ==
  LET sortedConfigs == SortByName(findRunConfigurations(folder))
  IN  [i \in 1..Len(sortedConfigs) |->
         JetBrainsRunConfigItem(sortedConfigs[i], folder)]

hasJetBrainsRunConfigurations(folder) ==
  \/ folder.runDir.exists /\ SelectSeq(folder.runDir.files, IsXmlFile) # <<>>
  \/ folder.ideaDir.exists /\ SelectSeq(folder.ideaDir.files, IsXmlFile) # <<>>

(***************************************************************************)
(* Sections of the tree: getSections, generateSectionId, getChildren       *)
(***************************************************************************)
LAUNCH_CONFIGURATIONS == <<"launch-configs">>
SCRIPTS == <<"scripts">>
RECENT == <<"recent">>
JETBRAINS_CONFIGS == <<"jetbrains-configs">>
MAKEFILE_TASKS == <<"makefile-tasks">>

NoPath == <<>>

\* the directories addNestedPackageSections visits, in the order it visits
\* them: a directory of the root, then the directories inside it
NestedDirs == << <<"b", "-", "c">>, <<"c">>, <<"c", "/", "e">>, <<"node_modules">> >>

RecentItemsSection == [sectionType |-> RECENT, folder |-> 0, path |-> NoPath]

\* a SectionItem: path is packageJsonPath or makefilePath relative to the folder
SectionItem(sectionType, folder, path) ==
  [sectionType |-> sectionType, folder |-> folder.index, path |-> path]


\* folder.unreadable: the directories of the root whose readdirSync throws.
\* The try block holds the whole loop, so the first of them ends the visit
\* after its own package.json was looked for.
addNestedPackageSections(folder) ==
  LET failing == {i \in 1..Len(NestedDirs) : NestedDirs[i] \in folder.unreadable}
      visited == IF failing = {} THEN NestedDirs
                 ELSE SubSeq(NestedDirs, 1,
                             CHOOSE i \in failing : \A j \in failing : i <= j)
      found == SelectSeq(visited,
                         LAMBDA dir : dir \in DOMAIN folder.packages
                                      /\ ~Includes(dir, <<"node_modules">>))
  IN  [i \in 1..Len(found) |-> SectionItem(SCRIPTS, folder, ManifestPath(found[i]))]

FolderSections(folder) ==
  (IF folder.launch.exists
     THEN <<SectionItem(LAUNCH_CONFIGURATIONS, folder, NoPath)>> ELSE <<>>)
  \o (IF RootDir \in DOMAIN folder.packages
        THEN <<SectionItem(SCRIPTS, folder, PackageJson)>> ELSE <<>>)
  \o (IF hasJetBrainsRunConfigurations(folder)
        THEN <<SectionItem(JETBRAINS_CONFIGS, folder, NoPath)>> ELSE <<>>)
  \o (IF folder.makefile.exists
        THEN <<SectionItem(MAKEFILE_TASKS, folder, MakefileName)>> ELSE <<>>)
  \o addNestedPackageSections(folder)

RECURSIVE AllFolderSections(_)
AllFolderSections(folders) ==
  IF folders = <<>> THEN <<>>
  ELSE FolderSections(Head(folders)) \o AllFolderSections(Tail(folders))

getSections(ws) ==
  <<RecentItemsSection>> \o AllFolderSections(SortByName(ws.folders))

FolderOf(ws, section) == CHOOSE f \in Range(ws.folders) : f.index = section.folder

generateSectionId(ws, section) ==
  <<"section-">> \o section.sectionType
  \o (IF section.folder # 0 /\ FolderOf(ws, section).name # <<>>
        THEN <<"-">> \o FolderOf(ws, section).name ELSE <<>>)
  \o (IF section.path # NoPath THEN <<"-">> \o section.path ELSE <<>>)

(***************************************************************************)
(* Visibility store: src/unnamed/part_009, and the filters of getChildren  *)
(***************************************************************************)
\* item.id || `${item.name}-${item.contextValue}`: no tree item sets an id
ItemId(item) == item.name \o <<"-", item.contextValue>>

isItemHidden(list, itemId) == \E i \in 1..Len(list) : list[i].id = itemId

isSectionHidden(list, sectionId) == \E i \in 1..Len(list) : list[i].id = sectionId

\* the mutation of hideItem that pushes without looking
hideItemNoCheck(list, item) == Append(list, item)

hideItem(list, item) == IF ~isItemHidden(list, item.id) THEN Append(list, item) ELSE list

hideSection(list, section) ==
  IF ~isSectionHidden(list, section.id) THEN Append(list, section) ELSE list

restoreItem(list, itemId) == SelectSeq(list, LAMBDA item : item.id # itemId)

restoreSection(list, sectionId) == SelectSeq(list, LAMBDA section : section.id # sectionId)

\* getItemPath: the manifest of a script, the Makefile of a Makefile task;
\* launch configurations and run configurations have none of the properties
\* it looks for
getItemPath(item) ==
  IF item.kind = "ScriptItem" THEN item.packageJsonPath
  ELSE IF item.kind = "MakefileTaskItem" THEN item.makefilePath
  ELSE <<>>

\* the HiddenItem the hideItem command builds
HiddenItemOf(ws, item) ==
  [id |-> ItemId(item), name |-> item.name, type |-> item.contextValue,
   path |-> getItemPath(item),
   folder |-> (CHOOSE f \in Range(ws.folders) : f.index = item.folder).name]

\* the HiddenItem the hideSection command builds
\* folder: section.workspaceFolder?.name, which the Recently Used section lacks
HiddenSectionOf(ws, section) ==
  [id |-> generateSectionId(ws, section), type |-> section.sectionType,
   folder |-> IF section.folder = 0 THEN <<>> ELSE FolderOf(ws, section).name,
   path |-> section.path]

\* the mutation of shouldShowSection without the exemption of Recently Used
shouldShowSectionNoExemption(ws, hidden, section) ==
  ~isSectionHidden(hidden, generateSectionId(ws, section))

shouldShowSection(ws, hidden, section) ==
  section.sectionType = RECENT \/ ~isSectionHidden(hidden, generateSectionId(ws, section))

\* the mutation of shouldShowItem that hides a task only in the file it was
\* hidden from
shouldShowItemSamePath(hidden, item) ==
  ~\E i \in 1..Len(hidden) :
      hidden[i].id = ItemId(item) /\ hidden[i].path = getItemPath(item)

shouldShowItem(hidden, item) == ~isItemHidden(hidden, ItemId(item))

\* what the reader of the section's type returns
SectionItems(ws, section) ==
  IF section.sectionType = LAUNCH_CONFIGURATIONS
    THEN getLaunchConfigurations(FolderOf(ws, section))
  ELSE IF section.sectionType = SCRIPTS
    THEN getPackageScripts(FolderOf(ws, section),
                           IF section.path = PackageJson THEN RootDir
                           ELSE SubSeq(section.path, 1, Len(section.path) - 2))
  ELSE IF section.sectionType = JETBRAINS_CONFIGS
    THEN getJetBrainsConfigurations(FolderOf(ws, section))
  ELSE IF section.sectionType = MAKEFILE_TASKS
    THEN getMakefileTasks(FolderOf(ws, section))
  ELSE <<>>

\* getChildren(section)
listTasks(ws, hidden, section) ==
  SelectSeq(SectionItems(ws, section), LAMBDA item : shouldShowItem(hidden, item))

\* getChildren()
listSections(ws, hidden) ==
  SelectSeq(getSections(ws), LAMBDA section : shouldShowSection(ws, hidden, section))

\* the item types getTreeItem counts for a section without a path
SectionContextValue(sectionType) ==
  IF sectionType = SCRIPTS THEN "script"
  ELSE IF sectionType = LAUNCH_CONFIGURATIONS THEN "configuration"
  ELSE IF sectionType = JETBRAINS_CONFIGS THEN "jetbrains-run-config"
  ELSE IF sectionType = MAKEFILE_TASKS THEN "makefile-task"
  ELSE "none"

\* getTreeItem: the hidden entries it takes to belong to the section, by
\* folder name and then by path or, for a section without a path, by type
sectionHiddenItems(ws, hidden, section) ==
  LET folder == FolderOf(ws, section)
  IN  SelectSeq(hidden,
        LAMBDA item :
          /\ ~(folder.name # <<>> /\ item.folder # folder.name)
          /\ IF section.path # NoPath
               THEN item.path = FsPath(folder) \o <<"/">> \o section.path
               ELSE item.type = SectionContextValue(section.sectionType))

\* the number of the "(N hidden)" description, 0 when there is none
HiddenIndicator(ws, hidden, section) ==
  IF section.sectionType = RECENT THEN 0
  ELSE Len(sectionHiddenItems(ws, hidden, section))

RealSections(ws) == {s \in Range(getSections(ws)) : s.sectionType # RECENT}

AllItems(ws) == UNION {Range(SectionItems(ws, s)) : s \in RealSections(ws)}

(***************************************************************************)
(* Persistence: context.globalState as RecentItemsManager and              *)
(* HiddenItemsManager use it                                               *)
(***************************************************************************)
RECENT_ITEMS_STORAGE_KEY == "recentItems"
ItemsStorageKey == "launchSidebar.hiddenItems"
SectionsStorageKey == "launchSidebar.hiddenSections"

\* one call globalState.update(key, value)
Update(key, value) == [key |-> key, value |-> value]

\* itemType of a SerializedRecentItem
ItemTypeOf(item) ==
  IF item.kind = "LaunchConfigurationItem" THEN "launch"
  ELSE IF item.kind = "ScriptItem" THEN "script"
  ELSE IF item.kind = "JetBrainsRunConfigItem" THEN "jetbrains"
  ELSE "makefile-task"

\* the properties of an item saveRecentItems copies besides its name and its
\* folder: type and configuration of a launch configuration, script and
\* packageJsonPath of a script, type and the run fields of a JetBrains
\* configuration, makefilePath and recipe of a Makefile task
SavedProperties(item) ==
  IF item.kind = "LaunchConfigurationItem" THEN {"detail", "configuration"}
  ELSE IF item.kind = "ScriptItem" THEN {"detail", "packageJsonPath"}
  ELSE IF item.kind = "JetBrainsRunConfigItem" THEN {"detail", "run"}
  ELSE {"makefilePath", "detail"}

\* item.workspaceFolder: its name and its uri.fsPath
WorkspaceFolderOf(ws, item) ==
  IF ws.kind = "tree"
  THEN LET folder == CHOOSE f \in Range(ws.folders) : f.index = item.folder
       IN  [name |-> folder.name, fsPath |-> FsPath(folder)]
  ELSE [name |-> item.folder, fsPath |-> item.folder]

SerializedRecentItem(ws, item) ==
  LET saved == SavedProperties(item) \cap DOMAIN item
  IN  [name |-> item.name, itemType |-> ItemTypeOf(item),
       workspaceFolderName |-> WorkspaceFolderOf(ws, item).name,
       workspaceFolderPath |-> WorkspaceFolderOf(ws, item).fsPath,
       properties |-> [p \in saved |-> item[p]]]

SerializedItems(ws, list) == [i \in 1..Len(list) |-> SerializedRecentItem(ws, list[i])]

\* RecentItemsManager.saveRecentItems: the update it issues
saveRecentItems(ws, list) == Update(RECENT_ITEMS_STORAGE_KEY, SerializedItems(ws, list))

\* HiddenItemsManager.saveHiddenItems and saveHiddenSections: the update issued
saveHiddenItems(list) == Update(ItemsStorageKey, list)

saveHiddenSections(list) == Update(SectionsStorageKey, list)

\* the mutation of HiddenItemsSaved in which the list is never saved
HiddenItemsNeverSaved(before, after) == <<>>

\* the updates of one call of hideItem, restoreItem or clearHiddenItems: the
\* list is saved when the call changed it
HiddenItemsSaved(before, after) ==
  IF before # after THEN <<saveHiddenItems(after)>> ELSE <<>>

\* the updates of one call of hideSection, restoreSection or clearHiddenSections
HiddenSectionsSaved(before, after) ==
  IF before # after THEN <<saveHiddenSections(after)>> ELSE <<>>

\* the updates of one call of removeRecentItem: saved when an item was removed
RemovedItemSaved(ws, before, after) ==
  IF Len(before) - Len(after) > 0 THEN <<saveRecentItems(ws, after)>> ELSE <<>>

\* the stored values once every update of the three lists has completed
Persisted(ws, recent, items, sections) ==
  (RECENT_ITEMS_STORAGE_KEY :> SerializedItems(ws, recent))
  @@ (ItemsStorageKey :> items) @@ (SectionsStorageKey :> sections)

\* the platform completes the oldest update
CompleteWrite ==
  /\ writes # <<>>
  /\ globalState' = [globalState EXCEPT ![Head(writes).key] = Head(writes).value]
  /\ writes' = Tail(writes)
  /\ UNCHANGED <<recentItems, hiddenItems, hiddenSections, workspace, last, steps, terminals, window, scans>>

\* the updates RecentItemWrapper.execute issues: one for each addRecentItem
wrapperExecuteSaved(ws, list, item) ==
  LET once == addRecentItem(list, item)
  IN  <<saveRecentItems(ws, once)>>
      \o (IF HasExecute(item) THEN <<saveRecentItems(ws, addRecentItem(once, item))>>
          ELSE <<>>)

(***************************************************************************)
(* TerminalManager: the terminals that commands are sent to                *)
(***************************************************************************)
\* path.dirname of a path that ends in a separator and a file name
Dirname(path) == SubSeq(path, 1, Len(path) - 2)

\* `${name}:${cwd}`
TerminalKey(name, cwd) == name \o <<":">> \o cwd

\* vscode.window.terminals.includes(terminal)
isTerminalStillAlive(win, terminal) == terminal \in win.terminals

\* the mutation of getOrCreateTerminal that trusts the map
getOrCreateTerminalNoAliveCheck(map, win, name, cwd) ==
  LET terminalKey == TerminalKey(name, cwd)
  IN  IF terminalKey \in DOMAIN map
      THEN [terminal |-> map[terminalKey], key |-> terminalKey, terminals |-> map,
            window |-> win]
      ELSE LET terminal == win.created + 1
           IN  [terminal |-> terminal, key |-> terminalKey,
                terminals |-> (terminalKey :> terminal) @@ map,
                window |-> [win EXCEPT !.terminals = @ \cup {terminal},
                                       !.created = terminal]]

\* getOrCreateTerminal: the terminal, and the map and the window after the
\* call; a terminal is known by the number of its creation
getOrCreateTerminal(map, win, name, cwd) ==
  LET terminalKey == TerminalKey(name, cwd)
  IN  IF terminalKey \in DOMAIN map /\ isTerminalStillAlive(win, map[terminalKey])
      THEN [terminal |-> map[terminalKey], key |-> terminalKey, terminals |-> map,
            window |-> win]
      ELSE LET terminal == win.created + 1
           IN  [terminal |-> terminal, key |-> terminalKey,
                terminals |-> (terminalKey :> terminal) @@ map,
                window |-> [win EXCEPT !.terminals = @ \cup {terminal},
                                       !.created = terminal]]

cleanupTerminals(map, win) ==
  [key \in {k \in DOMAIN map : isTerminalStillAlive(win, map[k])} |-> map[key]]

\* the terminal of launchConfigurations.runScript
ScriptTerminal(map, win, item) ==
  getOrCreateTerminal(map, win, <<item.packageManager, ":", " ">> \o item.name,
                      Dirname(item.packageJsonPath))

\* the terminal of launchConfigurations.runMakefileTask
MakefileTerminal(map, win, item) ==
  getOrCreateTerminal(map, win, <<"make", ":", " ">> \o item.name,
                      Dirname(item.makefilePath))

\* no terminal is asked for
NoTerminal(map, win) == [terminal |-> 0, key |-> <<>>, terminals |-> map, window |-> win]

\* the terminal RecentItemWrapper.execute ends up asking for: execute() of a
\* script or a Makefile task runs its command. The items of the recency
\* store taken alone carry no paths, and their terminals are left out.
WrapperTerminal(ws, map, win, item) ==
  IF ws.kind # "tree" \/ ~HasExecute(item) THEN NoTerminal(map, win)
  ELSE IF item.kind = "ScriptItem" THEN ScriptTerminal(map, win, item)
  ELSE MakefileTerminal(map, win, item)

\* the user closes a terminal: the window drops it, the close event follows
CloseTerminal ==
  \E terminal \in window.terminals :
    /\ window' = [window EXCEPT !.terminals = @ \ {terminal}, !.closed = @ + 1]
    /\ last' = [op |-> "closeTerminal", terminal |-> terminal]
    /\ UNCHANGED <<recentItems, hiddenItems, hiddenSections, workspace, steps, globalState,
                   writes, terminals, scans>>

\* onDidCloseTerminal: cleanupTerminals
OnDidCloseTerminal ==
  /\ window.closed > 0
  /\ terminals' = cleanupTerminals(terminals, window)
  /\ window' = [window EXCEPT !.closed = @ - 1]
  /\ last' = [op |-> "cleanupTerminals", before |-> terminals]
  /\ UNCHANGED <<recentItems, hiddenItems, hiddenSections, workspace, steps, globalState,
                 writes, scans>>

(***************************************************************************)
(* The operations of the recency store                                     *)
(***************************************************************************)
InitRecent ==
  /\ recentItems \in LoadedLists
  /\ hiddenItems = <<>>
  /\ hiddenSections = <<>>
  /\ workspace = IdleWorkspace
  /\ last = NoLast
  /\ steps = 0
  /\ globalState = Persisted(workspace, recentItems, hiddenItems, hiddenSections)
  /\ writes = <<>>
  /\ terminals = <<>>
  /\ window = NoWindow
  /\ scans = NoScans

\* the items the store can be called with: the tasks of the open folders, or
\* Items where no folder is looked at
ItemsOf(ws) ==
  IF ws.kind = "tree"
  THEN {item \in AllItems(ws) : item.kind # "LaunchConfigurationErrorItem"}
  ELSE Items

AddRecentItem ==
  \E item \in ItemsOf(workspace) :
    /\ steps < MaxSteps
    /\ recentItems' = addRecentItem(recentItems, item)
    /\ last' = [op |-> "add", item |-> item, before |-> recentItems]
    /\ steps' = steps + 1
    /\ writes' = writes \o <<saveRecentItems(workspace, recentItems')>>
    /\ UNCHANGED <<hiddenItems, hiddenSections, workspace, globalState, terminals, window, scans>>

RemoveRecentItem ==
  \E item \in ItemsOf(workspace) :
    /\ steps < MaxSteps
    /\ recentItems' = removeRecentItem(recentItems, item)
    /\ last' = [op |-> "remove", item |-> item, before |-> recentItems,
                issued |-> Len(RemovedItemSaved(workspace, recentItems, recentItems'))]
    /\ steps' = steps + 1
    /\ writes' = writes \o RemovedItemSaved(workspace, recentItems, recentItems')
    /\ UNCHANGED <<hiddenItems, hiddenSections, workspace, globalState, terminals, window, scans>>

ClearRecentItems ==
  /\ steps < MaxSteps
  /\ recentItems' = <<>>
  /\ last' = [op |-> "clear", before |-> recentItems]
  /\ steps' = steps + 1
  /\ writes' = writes \o <<saveRecentItems(workspace, recentItems')>>
  /\ UNCHANGED <<hiddenItems, hiddenSections, workspace, globalState, terminals, window, scans>>

\* the command launch-sidebar.runRecentItem on a wrapper of the Recently Used section
RunRecentItem ==
  \E i \in 1..Len(recentItems) :
    /\ steps < MaxSteps
    /\ recentItems' = wrapperExecute(recentItems, recentItems[i])
    /\ LET got == WrapperTerminal(workspace, terminals, window, recentItems[i])
       IN  /\ last' = [op |-> "run", item |-> recentItems[i], before |-> recentItems,
                       ran |-> HasExecute(recentItems[i]),
                       issued |-> Len(wrapperExecuteSaved(workspace, recentItems,
                                                          recentItems[i])),
                       terminal |-> got.terminal, key |-> got.key,
                       terminalsBefore |-> terminals, windowBefore |-> window]
           /\ terminals' = got.terminals
           /\ window' = got.window
    /\ steps' = steps + 1
    /\ writes' = writes \o wrapperExecuteSaved(workspace, recentItems, recentItems[i])
    /\ UNCHANGED <<hiddenItems, hiddenSections, workspace, globalState, scans>>

NextRecent == AddRecentItem \/ RemoveRecentItem \/ ClearRecentItems \/ RunRecentItem

SpecRecent == InitRecent /\ [][NextRecent]_vars

(***************************************************************************)
(* The package manager resolver, as the scripts reader calls it            *)
(***************************************************************************)
InitPm ==
  /\ workspace \in PmWorkspaces
  /\ recentItems = <<>>
  /\ hiddenItems = <<>>
  /\ hiddenSections = <<>>
  /\ last = NoLast
  /\ steps = 0
  /\ globalState = Persisted(workspace, recentItems, hiddenItems, hiddenSections)
  /\ writes = <<>>
  /\ terminals = <<>>
  /\ window = NoWindow
  /\ scans = NoScans

\* getPackageScripts: the root's manager first, then the manifest's
ScriptReaderDetects ==
  /\ last.op = "none"
  /\ LET rootPackageManager == detectRootPackageManager(workspace, workspace.root)
     IN  last' = [op |-> "getPackageScripts", inherited |-> rootPackageManager,
                  result |-> detectPackageManager(workspace, workspace.root \o workspace.rel,
                                                  rootPackageManager)]
  /\ steps' = steps + 1
  /\ UNCHANGED <<recentItems, hiddenItems, hiddenSections, workspace, globalState, writes, terminals, window, scans>>

\* detectPackageManager called with any inherited choice, or none
DetectPackageManager ==
  \E inherited \in PackageManagers \cup {"undefined"} :
    /\ last.op = "none"
    /\ last' = [op |-> "detectPackageManager", inherited |-> inherited,
                result |-> detectPackageManager(workspace, workspace.root \o workspace.rel,
                                                inherited)]
    /\ steps' = steps + 1
    /\ UNCHANGED <<recentItems, hiddenItems, hiddenSections, workspace, globalState, writes, terminals, window, scans>>

NextPm == ScriptReaderDetects \/ DetectPackageManager

SpecPm == InitPm /\ [][NextPm]_vars

\* a workspace folder with a manifest at its root and one a directory below
FolderManifests ==
  [state : {"ok"}, packageManager : {"none", "yarn@"}, engines : {{}},
   hasScripts : {TRUE}, scripts : {<<TscRun>>, <<PnpmRun>>}]

PmFolders ==
  UNION {
    [kind : {"pmFolder"}, root : {root},
     manifests : [{<<>>, <<"p">>} -> FolderManifests],
     locks : [{root, root \o <<"p">>} -> {{}, {"yarn.lock"}, {"package-lock.json"}}]]
    : root \in {<<>>, <<"h", "w">>}}

\* the folder as detectPackageManager sees it from the manifest at rel
ManifestAt(ws, rel) ==
  [kind |-> "pm", root |-> ws.root, rel |-> rel, manifest |-> ws.manifests[rel],
   locks |-> ws.locks]

InitPmFolder ==
  /\ workspace \in PmFolders
  /\ recentItems = <<>>
  /\ hiddenItems = <<>>
  /\ hiddenSections = <<>>
  /\ last = [op |-> "none", managers |-> <<>>]
  /\ steps = 0
  /\ globalState = Persisted(workspace, recentItems, hiddenItems, hiddenSections)
  /\ writes = <<>>
  /\ terminals = <<>>
  /\ window = NoWindow
  /\ scans = NoScans

\* getPackageScripts for one scripts section of the folder: every ScriptItem
\* of the section gets the manager found for the section's manifest;
\* last.managers holds the manager of each section listed so far
ListScriptsOf ==
  \E rel \in DOMAIN workspace.manifests :
    /\ rel \notin DOMAIN last.managers
    /\ LET rootPackageManager == detectRootPackageManager(workspace, workspace.root)
           packageManager ==
             detectPackageManager(ManifestAt(workspace, rel), workspace.root \o rel,
                                  rootPackageManager).pm
       IN  last' = [op |-> "getPackageScripts",
                    managers |-> (rel :> packageManager) @@ last.managers]
    /\ steps' = steps + 1
    /\ UNCHANGED <<recentItems, hiddenItems, hiddenSections, workspace, globalState, writes, terminals, window, scans>>

NextPmFolder == ListScriptsOf

SpecPmFolder == InitPmFolder /\ [][NextPmFolder]_vars

(***************************************************************************)
(* Workspaces the tree is computed from                                    *)
(***************************************************************************)
NoDir == [exists |-> FALSE, files |-> <<>>]
NoMakefile == [exists |-> FALSE, content |-> <<>>]

FolderNames == {<<"a">>, <<"a", "-", "b">>}

SampleLaunchJson ==
  [exists |-> TRUE, readable |-> TRUE,
   configurations |-> <<[name |-> <<"b">>, type |-> <<"node">>],
                        [name |-> <<"a">>, type |-> <<"go">>]>>,
   compounds |-> <<>>]

\* the scripts of the manifests of the sample folders
SampleScripts ==
  (RootDir :> {<<"a">>, <<"b">>}) @@ (<<"b", "-", "c">> :> {<<"b">>, <<"c">>})
  @@ (<<"c">> :> {<<"b">>})

\* the directories of a sample folder that hold a package.json
SampleManifestDirs ==
  {{RootDir}, {RootDir, <<"c">>}, {<<"b", "-", "c">>}, {<<"c">>, <<"b", "-", "c">>}}

Restrict(f, D) == [x \in D |-> f[x]]

HiddenFolders(index) ==
  [name : FolderNames, index : {index}, launch : {NoLaunchJson, SampleLaunchJson},
   packages : {Restrict(SampleScripts, D) : D \in SampleManifestDirs}, packageManager : {"npm"},
   unreadable : {{}}, broken : {{}}, runDir : {NoDir}, ideaDir : {NoDir}, makefile : {NoMakefile}]

TreeWorkspace(folders) == [kind |-> "tree", folders |-> folders]

HiddenWorkspaces ==
  {TreeWorkspace(<<f>>) : f \in HiddenFolders(1)}
  \cup {TreeWorkspace(<<f, g>>) : f \in HiddenFolders(1), g \in HiddenFolders(2)}

\* a hidden task loaded from storage
StoredHiddenItem ==
  [id |-> <<"b", "-", "script">>, name |-> <<"b">>, type |-> "script", folder |-> <<"a">>,
   path |-> <<"/x", "/", "a", "/">> \o PackageJson]

(***************************************************************************)
(* The hide and restore commands:                                          *)
(*   src/.github/workflows/build-and-package.yml                           *)
(***************************************************************************)
\* what an operation on the hidden tasks leaves for the next one to see
Earlier(l) ==
  IF l.op \in {"hideItem", "restoreItem"}
  THEN [op |-> l.op, id |-> l.id, before |-> l.before]
  ELSE [op |-> l.op, id |-> <<>>, before |-> <<>>]

InitHidden ==
  /\ workspace \in {TreeWorkspace(<<f>>) : f \in HiddenFolders(1)}
  /\ hiddenItems \in {<<>>, <<StoredHiddenItem>>}
  /\ hiddenSections = <<>>
  /\ recentItems = <<>>
  /\ last = NoLast
  /\ steps = 0
  /\ globalState = Persisted(workspace, recentItems, hiddenItems, hiddenSections)
  /\ writes = <<>>
  /\ terminals = <<>>
  /\ window = NoWindow
  /\ scans = NoScans

HideItem ==
  \E item \in AllItems(workspace) :
    /\ steps < MaxSteps
    /\ hiddenItems' = hideItem(hiddenItems, HiddenItemOf(workspace, item))
    /\ last' = [op |-> "hideItem", id |-> ItemId(item), before |-> hiddenItems,
                earlier |-> Earlier(last),
                fired |-> Len(HiddenItemsSaved(hiddenItems, hiddenItems'))]
    /\ steps' = steps + 1
    /\ writes' = writes \o HiddenItemsSaved(hiddenItems, hiddenItems')
    /\ UNCHANGED <<recentItems, hiddenSections, workspace, globalState, terminals, window, scans>>

RestoreItem ==
  \E item \in AllItems(workspace) :
    /\ steps < MaxSteps
    /\ hiddenItems' = restoreItem(hiddenItems, ItemId(item))
    /\ last' = [op |-> "restoreItem", id |-> ItemId(item), before |-> hiddenItems,
                earlier |-> Earlier(last),
                fired |-> Len(HiddenItemsSaved(hiddenItems, hiddenItems'))]
    /\ steps' = steps + 1
    /\ writes' = writes \o HiddenItemsSaved(hiddenItems, hiddenItems')
    /\ UNCHANGED <<recentItems, hiddenSections, workspace, globalState, terminals, window, scans>>

HideSection ==
  \E section \in RealSections(workspace) :
    /\ steps < MaxSteps
    /\ hiddenSections' = hideSection(hiddenSections, HiddenSectionOf(workspace, section))
    /\ last' = [op |-> "hideSection", section |-> section, before |-> hiddenSections,
                beforeItems |-> hiddenItems,
                fired |-> Len(HiddenSectionsSaved(hiddenSections, hiddenSections'))]
    /\ steps' = steps + 1
    /\ writes' = writes \o HiddenSectionsSaved(hiddenSections, hiddenSections')
    /\ UNCHANGED <<recentItems, hiddenItems, workspace, globalState, terminals, window, scans>>

RestoreSection ==
  \E section \in RealSections(workspace) :
    /\ steps < MaxSteps
    /\ hiddenSections' = restoreSection(hiddenSections, generateSectionId(workspace, section))
    /\ last' = [op |-> "restoreSection", section |-> section, before |-> hiddenSections,
                fired |-> Len(HiddenSectionsSaved(hiddenSections, hiddenSections'))]
    /\ steps' = steps + 1
    /\ writes' = writes \o HiddenSectionsSaved(hiddenSections, hiddenSections')
    /\ UNCHANGED <<recentItems, hiddenItems, workspace, globalState, terminals, window, scans>>

\* manageHiddenItems, "Restore All Hidden Items and Sections"
ClearAllHidden ==
  LET saved == HiddenItemsSaved(hiddenItems, <<>>) \o HiddenSectionsSaved(hiddenSections, <<>>)
  IN  /\ steps < MaxSteps
      /\ Len(hiddenItems) + Len(hiddenSections) > 0
      /\ hiddenItems' = <<>>
      /\ hiddenSections' = <<>>
      /\ last' = [op |-> "clearAllHidden", fired |-> Len(saved)]
      /\ steps' = steps + 1
      /\ writes' = writes \o saved
      /\ UNCHANGED <<recentItems, workspace, globalState, terminals, window, scans>>

\* manageHiddenItems, "Restore All Hidden Sections"
ClearHiddenSections ==
  /\ steps < MaxSteps
  /\ Len(hiddenSections) > 0
  /\ hiddenSections' = <<>>
  /\ last' = [op |-> "clearHiddenSections",
              fired |-> Len(HiddenSectionsSaved(hiddenSections, hiddenSections'))]
  /\ steps' = steps + 1
  /\ writes' = writes \o HiddenSectionsSaved(hiddenSections, hiddenSections')
  /\ UNCHANGED <<recentItems, hiddenItems, workspace, globalState, terminals, window, scans>>

\* manageHiddenItems, "Restore All Hidden Items"
ClearHiddenItems ==
  /\ steps < MaxSteps
  /\ Len(hiddenItems) > 0
  /\ hiddenItems' = <<>>
  /\ last' = [op |-> "clearHiddenItems",
              fired |-> Len(HiddenItemsSaved(hiddenItems, hiddenItems'))]
  /\ steps' = steps + 1
  /\ writes' = writes \o HiddenItemsSaved(hiddenItems, hiddenItems')
  /\ UNCHANGED <<recentItems, hiddenSections, workspace, globalState, terminals, window, scans>>

NextHidden ==
  \/ HideItem \/ RestoreItem \/ HideSection \/ RestoreSection
  \/ ClearAllHidden \/ ClearHiddenSections \/ ClearHiddenItems

SpecHidden == InitHidden /\ [][NextHidden]_vars

\* getTreeItem on a section that getChildren returned
GetTreeItem ==
  \E section \in Range(listSections(workspace, hiddenSections)) :
    /\ steps < MaxSteps
    /\ last' = [op |-> "getTreeItem", section |-> section,
                hidden |-> HiddenIndicator(workspace, hiddenItems, section)]
    /\ steps' = steps + 1
    /\ UNCHANGED <<recentItems, hiddenItems, hiddenSections, workspace, globalState, writes,
                   terminals, window, scans>>

NextIndicator == HideItem \/ RestoreItem \/ GetTreeItem

SpecIndicator == InitHidden /\ [][NextIndicator]_vars

\* the section commands over workspaces of one or two folders
InitMultiRoot ==
  /\ workspace \in HiddenWorkspaces
  /\ hiddenItems = <<>>
  /\ hiddenSections = <<>>
  /\ recentItems = <<>>
  /\ last = NoLast
  /\ steps = 0
  /\ globalState = Persisted(workspace, recentItems, hiddenItems, hiddenSections)
  /\ writes = <<>>
  /\ terminals = <<>>
  /\ window = NoWindow
  /\ scans = NoScans

NextMultiRoot == HideSection \/ RestoreSection \/ ClearHiddenSections

SpecMultiRoot == InitMultiRoot /\ [][NextMultiRoot]_vars

(***************************************************************************)
(* Reading the tree: getChildren() and getChildren(section)                *)
(***************************************************************************)
ListSections ==
  /\ steps < MaxSteps
  /\ last' = [op |-> "listSections", sections |-> listSections(workspace, hiddenSections)]
  /\ steps' = steps + 1
  /\ UNCHANGED <<recentItems, hiddenItems, hiddenSections, workspace, globalState, writes, terminals, window, scans>>

ListTasks ==
  \E section \in Range(listSections(workspace, hiddenSections)) :
    /\ steps < MaxSteps
    /\ last' = [op |-> "listTasks", section |-> section,
                items |-> IF section.sectionType = RECENT THEN recentItems
                          ELSE listTasks(workspace, hiddenItems, section)]
    /\ steps' = steps + 1
    /\ UNCHANGED <<recentItems, hiddenItems, hiddenSections, workspace, globalState, writes, terminals, window, scans>>

NextTree == ListSections \/ ListTasks

\* one or two roots, each with a launch.json and with manifests that share
\* script names between sections and between roots
VisibleFolders(index) ==
  [name : IF index = 1 THEN {<<"a">>} ELSE FolderNames, index : {index},
   launch : {SampleLaunchJson},
   packages : {Restrict(SampleScripts, D) : D \in {{RootDir, <<"c">>}, {<<"b", "-", "c">>}}},
   packageManager : {"npm"}, unreadable : {{}}, broken : {{}}, runDir : {NoDir},
   ideaDir : {NoDir}, makefile : {NoMakefile}]

VisibleWorkspaces ==
  {TreeWorkspace(<<f>>) : f \in VisibleFolders(1)}
  \cup {TreeWorkspace(<<f, g>>) : f \in VisibleFolders(1), g \in VisibleFolders(2)}

\* tasks are hidden and restored and sections are expanded, with a task named
\* b possibly in the Recently Used list
InitVisible ==
  /\ workspace \in VisibleWorkspaces
  /\ hiddenItems \in {<<>>, <<StoredHiddenItem>>}
  /\ hiddenSections = <<>>
  /\ recentItems \in {<<>>} \cup {<<item>> : item \in {t \in AllItems(workspace) :
                                                      t.name = <<"b">> /\ t.folder = 1}}
  /\ last = NoLast
  /\ steps = 0
  /\ globalState = Persisted(workspace, recentItems, hiddenItems, hiddenSections)
  /\ writes = <<>>
  /\ terminals = <<>>
  /\ window = NoWindow
  /\ scans = NoScans

NextVisible == HideItem \/ RestoreItem \/ ListTasks

SpecVisible == InitVisible /\ [][NextVisible]_vars

(***************************************************************************)
(* findConfigPosition: src/src/providers/launch-configuration-provider.ts  *)
(***************************************************************************)
\* the longest document
MaxDoc == 4

\* the text ["']name["']\s*:\s*["']<configName>["'] of the pattern, which a
\* document holds as one unit
NameEntry(configName) == IF configName = <<"a">> THEN "'name':'a'" ELSE "'name':'b'"

\* the units of a document: braces, white space and name entries
DocUnits == {"{", "}", " ", NameEntry(<<"a">>), NameEntry(<<"b">>)}

Documents == UNION {[1..n -> DocUnits] : n \in 0..MaxDoc}

\* [\s\n]* from offset i on: the offset of the first unit that is not white
\* space, the length of the text when there is none
SkipSpace(text, i) ==
  LET rest == {j \in (i + 1)..Len(text) : text[j] # " "}
  IN  IF rest = {} THEN Len(text) ELSE (CHOOSE j \in rest : \A k \in rest : j <= k) - 1

\* the length of the match of configRegex at offset i, 0 when there is none
MatchLength(text, configName, i) ==
  LET brace == SkipSpace(text, i)
      entry == SkipSpace(text, brace + 1)
  IN  IF /\ brace < Len(text)
         /\ text[brace + 1] = "{"
         /\ entry < Len(text)
         /\ text[entry + 1] = NameEntry(configName)
      THEN entry + 1 - i
      ELSE 0

\* configRegex.exec(text): index and length of the leftmost match
RegexExec(text, configName) ==
  LET starts == {i \in 0..Len(text) : MatchLength(text, configName, i) > 0}
  IN  IF starts = {} THEN [matched |-> FALSE, index |-> 0, length |-> 0]
      ELSE LET index == CHOOSE i \in starts : \A k \in starts : i <= k
           IN  [matched |-> TRUE, index |-> index,
                length |-> MatchLength(text, configName, index)]

\* undefined
NoPosition == [defined |-> FALSE, start |-> 0, end |-> 0]

\* the ConfigPosition returned; positionAt is taken as the offset itself
ConfigPosition(startPos, endPos) == [defined |-> TRUE, start |-> startPos, end |-> endPos]

InitPosition ==
  /\ workspace \in [kind : {"document"}, text : Documents, configName : {<<"a">>, <<"b">>}]
  /\ recentItems = <<>>
  /\ hiddenItems = <<>>
  /\ hiddenSections = <<>>
  /\ last = NoLast
  /\ steps = 0
  /\ globalState = Persisted(workspace, recentItems, hiddenItems, hiddenSections)
  /\ writes = <<>>
  /\ terminals = <<>>
  /\ window = NoWindow
  /\ scans = NoScans

\* the call up to the loop: no match returns undefined
FindConfigPosition ==
  LET match == RegexExec(workspace.text, workspace.configName)
  IN  /\ last.op = "none"
      /\ last' = IF match.matched
                 THEN [op |-> "findConfigPosition", pc |-> "while", match |-> match,
                       braceCount |-> 1, endPos |-> match.index + match.length,
                       currentOffset |-> match.index + match.length,
                       result |-> NoPosition]
                 ELSE [op |-> "findConfigPosition", pc |-> "returned", match |-> match,
                       braceCount |-> 0, endPos |-> 0, currentOffset |-> 0,
                       result |-> NoPosition]
      /\ UNCHANGED <<recentItems, hiddenItems, hiddenSections, workspace, steps, globalState,
                     writes, terminals, window, scans>>

\* one pass of the while loop
CountBrace ==
  /\ last.op = "findConfigPosition" /\ last.pc = "while"
  /\ last.braceCount > 0 /\ last.currentOffset < Len(workspace.text)
  /\ LET char == workspace.text[last.currentOffset + 1]
         braceCount == IF char = "{" THEN last.braceCount + 1
                       ELSE IF char = "}" THEN last.braceCount - 1
                       ELSE last.braceCount
         currentOffset == last.currentOffset + 1
     IN  last' = [last EXCEPT !.braceCount = braceCount,
                              !.currentOffset = currentOffset,
                              !.endPos = IF braceCount = 0 THEN currentOffset ELSE @,
                              !.pc = IF braceCount = 0 THEN "return" ELSE "while"]
  /\ UNCHANGED <<recentItems, hiddenItems, hiddenSections, workspace, steps, globalState,
                 writes, terminals, window, scans>>

\* the loop condition fails or the loop was left by break: the return
\* statement after the loop
ReturnPosition ==
  /\ last.op = "findConfigPosition"
  /\ \/ last.pc = "return"
     \/ last.pc = "while" /\ ~(last.braceCount > 0 /\ last.currentOffset < Len(workspace.text))
  /\ last' = [last EXCEPT !.pc = "returned",
                          !.result = ConfigPosition(last.match.index, last.endPos)]
  /\ UNCHANGED <<recentItems, hiddenItems, hiddenSections, workspace, steps, globalState,
                 writes, terminals, window, scans>>

NextPosition == FindConfigPosition \/ CountBrace \/ ReturnPosition

\* the function is synchronous: once called it runs until it returns or
\* loops for ever
SpecPosition == InitPosition /\ [][NextPosition]_vars /\ WF_vars(NextPosition)

(***************************************************************************)
(* getChildren calls in flight together:                                   *)
(*   src/src/providers/launch-configuration-provider.ts                    *)
(***************************************************************************)
\* getSections, one folder, up to `await this.hasJetBrainsRunConfigurations`
SectionsBeforeAwait(folder) ==
  (IF folder.launch.exists
     THEN <<SectionItem(LAUNCH_CONFIGURATIONS, folder, NoPath)>> ELSE <<>>)
  \o (IF RootDir \in DOMAIN folder.packages
        THEN <<SectionItem(SCRIPTS, folder, PackageJson)>> ELSE <<>>)

\* getSections, one folder, from there up to `await this.addNestedPackageSections`,
\* whose body has run by then
SectionsAfterAwait(folder) ==
  (IF hasJetBrainsRunConfigurations(folder)
     THEN <<SectionItem(JETBRAINS_CONFIGS, folder, NoPath)>> ELSE <<>>)
  \o (IF folder.makefile.exists
        THEN <<SectionItem(MAKEFILE_TASKS, folder, MakefileName)>> ELSE <<>>)
  \o addNestedPackageSections(folder)

\* the stretches of getSections between two suspension points: two a folder
Stretches(ws) == 2 * Len(ws.folders)

Stretch(ws, n) ==
  LET folder == SortByName(ws.folders)[(n + 1) \div 2]
  IN  IF n % 2 = 1 THEN SectionsBeforeAwait(folder) ELSE SectionsAfterAwait(folder)

\* the mutation in which the calls fill one array between them
pushShared(all, k, new) == [j \in 1..Len(all) |-> [all[j] EXCEPT !.sections = @ \o new]]

\* sections.push on the array of call k, a local of getSections
push(all, k, new) == [all EXCEPT ![k].sections = @ \o new]

\* some getChildren call stands at a suspension point
InFlight == \E j \in 1..Len(scans) : scans[j].pc \in {"getSections", "reader"}

\* what the stores hold
Stores == <<recentItems, hiddenItems, hiddenSections>>

\* getChildren is called: it runs to its first suspension point, or returns
\* the Recently Used list at once
StartScan ==
  \E k \in 1..Len(scans) :
    \E element \in {NoElement} \cup Range(listSections(workspace, hiddenSections)) :
      /\ scans[k].pc = "idle"
      /\ \A j \in 1..Len(scans) : scans[j].pc # "idle" => scans[j].element = element
      /\ scans' =
           IF element = NoElement
           THEN push([scans EXCEPT ![k] = [NoScan EXCEPT !.pc = "getSections",
                                                         !.seen = Stores, !.overlapped = InFlight,
                                                         !.at = IF Stretches(workspace) > 0
                                                                THEN 1 ELSE 0]],
                     k,
                     <<RecentItemsSection>>
                     \o (IF Stretches(workspace) > 0 THEN Stretch(workspace, 1) ELSE <<>>))
           ELSE IF element.sectionType = RECENT
           THEN [scans EXCEPT ![k] = [NoScan EXCEPT !.pc = "returned", !.element = element,
                                                    !.seen = Stores, !.overlapped = InFlight,
                                                    !.items = recentItems,
                                                    !.result = recentItems]]
           ELSE [scans EXCEPT ![k] = [NoScan EXCEPT !.pc = "reader", !.element = element,
                                                    !.seen = Stores, !.overlapped = InFlight,
                                                    !.items = SectionItems(workspace, element)]]
      /\ UNCHANGED <<recentItems, hiddenItems, hiddenSections, workspace, last, steps,
                     globalState, writes, terminals, window>>

\* getSections goes on from a suspension point to the next
ContinueScan ==
  \E k \in 1..Len(scans) :
    /\ scans[k].pc = "getSections"
    /\ scans[k].at < Stretches(workspace)
    /\ scans' = push([scans EXCEPT ![k].at = @ + 1], k, Stretch(workspace, scans[k].at + 1))
    /\ UNCHANGED <<recentItems, hiddenItems, hiddenSections, workspace, last, steps,
                   globalState, writes, terminals, window>>

\* the awaited reader or getSections has resolved: getChildren filters and
\* returns
ReturnScan ==
  \E k \in 1..Len(scans) :
    /\ \/ scans[k].pc = "reader"
       \/ scans[k].pc = "getSections" /\ scans[k].at = Stretches(workspace)
    /\ scans' =
         [scans EXCEPT ![k].pc = "returned",
                       ![k].result =
                         IF scans[k].pc = "reader"
                         THEN SelectSeq(scans[k].items,
                                        LAMBDA item : shouldShowItem(hiddenItems, item))
                         ELSE SelectSeq(scans[k].sections,
                                        LAMBDA section :
                                          shouldShowSection(workspace, hiddenSections,
                                                            section))]
    /\ UNCHANGED <<recentItems, hiddenItems, hiddenSections, workspace, last, steps,
                   globalState, writes, terminals, window>>

\* two roots, each with a launch.json and a Makefile
ScanWorkspace ==
  LET folder(index, name) ==
        [name |-> name, index |-> index,
         launch |-> [exists |-> TRUE, readable |-> TRUE,
                     configurations |-> <<[name |-> <<"b">>, type |-> <<"node">>]>>,
                     compounds |-> <<>>],
         packages |-> Restrict(SampleScripts, {}), packageManager |-> "npm",
         unreadable |-> {}, broken |-> {}, runDir |-> NoDir, ideaDir |-> NoDir,
         makefile |-> [exists |-> TRUE, content |-> <<"e", ":">>]]
  IN  TreeWorkspace(<<folder(1, <<"a", "-", "b">>), folder(2, <<"a">>)>>)

InitScans ==
  /\ workspace = ScanWorkspace
  /\ hiddenItems = <<>>
  /\ hiddenSections = <<>>
  /\ recentItems \in {<<item>> : item \in {t \in AllItems(workspace) :
                                            t.name = <<"b">> /\ t.folder = 1}}
  /\ last = NoLast
  /\ steps = 0
  /\ globalState = Persisted(workspace, recentItems, hiddenItems, hiddenSections)
  /\ writes = <<>>
  /\ terminals = <<>>
  /\ window = NoWindow
  /\ scans = NoScans

\* scans run while tasks and sections are hidden
NextScans == StartScan \/ ContinueScan \/ ReturnScan \/ HideItem \/ HideSection

SpecScans == InitScans /\ [][NextScans]_vars

\* a folder that holds nothing but the files given
FolderWith(launch, runDir, ideaDir, makefile) ==
  [name |-> <<"a">>, index |-> 1, launch |-> launch, packages |-> Restrict(SampleScripts, {}),
   packageManager |-> "npm", unreadable |-> {}, broken |-> {},
   runDir |-> runDir, ideaDir |-> ideaDir, makefile |-> makefile]

\* a hidden launch configuration loaded from storage
StoredHiddenConfiguration ==
  [id |-> <<"a", "-", "configuration">>, name |-> <<"a">>, type |-> "configuration",
   folder |-> <<"a">>, path |-> <<>>]

InitLaunch ==
  /\ workspace \in {TreeWorkspace(<<FolderWith(file, NoDir, NoDir, NoMakefile)>>) :
                      file \in LaunchFiles}
  /\ hiddenItems \in {<<>>, <<StoredHiddenConfiguration>>}
  /\ hiddenSections = <<>>
  /\ recentItems = <<>>
  /\ last = NoLast
  /\ steps = 0
  /\ globalState = Persisted(workspace, recentItems, hiddenItems, hiddenSections)
  /\ writes = <<>>
  /\ terminals = <<>>
  /\ window = NoWindow
  /\ scans = NoScans

SpecLaunch == InitLaunch /\ [][NextTree]_vars

\* the lines Makefiles are put together from
LineShapes ==
  { <<"a", ":">>, <<"b", ":", " ", "a">>, <<"c", ":", "=", "a">>, <<"\t", "e">>,
    <<" ", " ", "c", " ">>, <<"\t", "#", "e">>, <<"#", "a">>, <<"e">>, <<>> }

MakefileLines ==
  {<<x>> : x \in LineShapes} \cup {<<x, y>> : x, y \in LineShapes}
  \cup {<<x, y, z>> : x, y, z \in LineShapes}

Makefiles == {[exists |-> TRUE, content |-> Join(lines, Newline)] : lines \in MakefileLines}

InitMake ==
  /\ workspace \in {TreeWorkspace(<<FolderWith(NoLaunchJson, NoDir, NoDir, makefile)>>) :
                      makefile \in Makefiles}
  /\ hiddenItems = <<>>
  /\ hiddenSections = <<>>
  /\ recentItems = <<>>
  /\ last = NoLast
  /\ steps = 0
  /\ globalState = Persisted(workspace, recentItems, hiddenItems, hiddenSections)
  /\ writes = <<>>
  /\ terminals = <<>>
  /\ window = NoWindow
  /\ scans = NoScans

SpecMake == InitMake /\ [][NextTree]_vars

\* the files .run and .idea/runConfigurations are filled with
XmlFiles ==
  { [ext |-> ".xml", parses |-> TRUE,
     configurations |-> <<ConfigurationElement(<<"a">>, ShConfigurationType)>>],
    [ext |-> ".xml", parses |-> TRUE,
     configurations |-> <<ConfigurationElement(<<"b">>, ShConfigurationType),
                          ConfigurationElement(<<"a">>, ShConfigurationType)>>],
    [ext |-> ".xml", parses |-> TRUE,
     configurations |-> <<ConfigurationElement(<<>>, ShConfigurationType)>>],
    [ext |-> ".xml", parses |-> TRUE,
     configurations |-> <<ConfigurationElement(<<"a">>, <<>>)>>],
    [ext |-> ".xml", parses |-> TRUE, configurations |-> <<>>],
    [ext |-> ".xml", parses |-> FALSE, configurations |-> <<>>],
    [ext |-> ".txt", parses |-> FALSE, configurations |-> <<>>] }

ConfigDirs == {NoDir} \cup [exists : {TRUE}, files : UpTo2(XmlFiles)]

InitJB ==
  /\ workspace \in {TreeWorkspace(<<FolderWith(NoLaunchJson, runDir, ideaDir, NoMakefile)>>) :
                      runDir \in ConfigDirs, ideaDir \in ConfigDirs}
  /\ hiddenItems = <<>>
  /\ hiddenSections = <<>>
  /\ recentItems = <<>>
  /\ last = NoLast
  /\ steps = 0
  /\ globalState = Persisted(workspace, recentItems, hiddenItems, hiddenSections)
  /\ writes = <<>>
  /\ terminals = <<>>
  /\ window = NoWindow
  /\ scans = NoScans

SpecJB == InitJB /\ [][NextTree]_vars

\* folders with directories that cannot be listed and with run-configuration
\* files that cannot be read or parsed
ScanFolders(index) ==
  [name : {IF index = 1 THEN <<"a">> ELSE <<"b">>}, index : {index},
   launch : {NoLaunchJson},
   packages : {Restrict(SampleScripts, D) :
                 D \in {{}, {<<"c">>}, {<<"b", "-", "c">>, <<"c">>}}},
   packageManager : {"npm"},
   unreadable : SUBSET {<<"b", "-", "c">>, <<"c">>}, broken : {{}},
   runDir : {NoDir} \cup
            [exists : {TRUE},
             files : {<<x, y>> \in XmlFiles \X XmlFiles :
                        x.parses # y.parses /\ Len(x.configurations) + Len(y.configurations) = 1
                        /\ \A c \in Range(x.configurations \o y.configurations) :
                              c.name # <<>> /\ c.type # <<>>}],
   ideaDir : {NoDir}, makefile : {NoMakefile}]

InitScan ==
  /\ workspace \in {TreeWorkspace(<<f>>) : f \in ScanFolders(1)}
                   \cup {TreeWorkspace(<<f, g>>) : f \in ScanFolders(1), g \in ScanFolders(2)}
  /\ hiddenItems = <<>>
  /\ hiddenSections = <<>>
  /\ recentItems = <<>>
  /\ last = NoLast
  /\ steps = 0
  /\ globalState = Persisted(workspace, recentItems, hiddenItems, hiddenSections)
  /\ writes = <<>>
  /\ terminals = <<>>
  /\ window = NoWindow
  /\ scans = NoScans

SpecScan == InitScan /\ [][NextTree]_vars

\* one folder whose files may hold content that does not parse
ParseFolders ==
  [name : {<<"a">>}, index : {1},
   launch : {SampleLaunchJson,
             [exists |-> TRUE, readable |-> TRUE, configurations |-> <<>>, compounds |-> <<>>],
             [exists |-> TRUE, readable |-> FALSE, configurations |-> <<>>, compounds |-> <<>>]},
   packages : {Restrict(SampleScripts, {RootDir, <<"c">>})},
   packageManager : {"npm"}, unreadable : {{}},
   broken : SUBSET {<<".vscode", "/", "launch.json">>, PackageJson, ManifestPath(<<"c">>)},
   runDir : {[exists |-> TRUE, files |-> files] :
               files \in {<<x>> : x \in XmlFiles} \cup {<<x, y>> : x, y \in XmlFiles}},
   ideaDir : {NoDir},
   makefile : {[exists |-> TRUE, content |-> content] :
                 content \in {<<>>, <<"e">>, <<"a", ":">>, <<":", "=", "\t">>}}]

InitParse ==
  /\ workspace \in {TreeWorkspace(<<folder>>) : folder \in ParseFolders}
  /\ hiddenItems = <<>>
  /\ hiddenSections = <<>>
  /\ recentItems = <<>>
  /\ last = NoLast
  /\ steps = 0
  /\ globalState = Persisted(workspace, recentItems, hiddenItems, hiddenSections)
  /\ writes = <<>>
  /\ terminals = <<>>
  /\ window = NoWindow
  /\ scans = NoScans

SpecParse == InitParse /\ [][NextTree]_vars

(***************************************************************************)
(* Running a JetBrains configuration: the command                          *)
(* launchConfigurations.runJetBrainsConfig of extension.ts                 *)
(***************************************************************************)
Space == <<" ">>
Quote == <<"\"">>
GoRun == <<"go", " ", "run">>
Node == <<"node">>

\* the values an <option> or child element of a run configuration carries
OptionValues == {<<>>, <<"a">>, <<ProjectDir, "/", "a">>}

FlagValues == {<<>>, True, <<"false">>}

ShellElements ==
  { [ConfigurationElement(<<"a">>, ShConfigurationType) EXCEPT
       !.SCRIPT_TEXT = text, !.SCRIPT_PATH = path, !.SCRIPT_WORKING_DIRECTORY = dir,
       !.INTERPRETER_PATH = interpreter, !.EXECUTE_SCRIPT_FILE = flag,
       !.EXECUTE_IN_TERMINAL = flag, !.SCRIPT_OPTIONS = options] :
      text \in OptionValues, path \in OptionValues, dir \in OptionValues,
      interpreter \in {<<>>, <<"a">>}, flag \in FlagValues, options \in OptionValues }

GoElements ==
  { [ConfigurationElement(<<"a">>, type) EXCEPT
       !.package = package, !.working_directory = dir, !.go_parameters = parameters,
       !.envs = envs] :
      type \in {GoApplicationRunConfiguration, <<"GoApplication", "Custom">>,
                GoTestRunConfiguration},
      package \in OptionValues, dir \in OptionValues, parameters \in OptionValues,
      envs \in {<<>>, << <<"e", "a">> >>} }

GeneralElements ==
  { [ConfigurationElement(<<"a">>, <<"Application">>) EXCEPT !.working_directory = dir] :
      dir \in OptionValues }

RunElements == ShellElements \cup GoElements \cup GeneralElements

\* what the command sends to the terminal, or that it throws
JetBrainsCommand(item) ==
  LET run == item.run
  IN  IF Includes(run.type, GoApplicationRunConfiguration)
        THEN [thrown |-> FALSE,
              command |-> IF run.packagePath # <<>>
                          THEN GoRun
                               \o (IF run.goParameters # <<>> THEN Space \o run.goParameters
                                   ELSE <<>>)
                               \o Space \o run.packagePath
                               \o (IF run.command # <<>> THEN Space \o run.command ELSE <<>>)
                          ELSE <<>>]
      ELSE IF run.command # <<>> THEN [thrown |-> FALSE, command |-> run.command]
      ELSE IF run.executeScriptFile /\ run.packagePath # <<>>
        THEN [thrown |-> FALSE,
              command |-> (IF run.interpreter # <<>> THEN run.interpreter ELSE Node)
                          \o Space \o Quote \o run.packagePath \o Quote]
      ELSE IF run.scriptText # <<>> THEN [thrown |-> FALSE, command |-> run.scriptText]
      ELSE [thrown |-> TRUE, command |-> <<>>]

\* item.workingDirectory || item.workspaceFolder.uri.fsPath
JetBrainsWorkDir(ws, item) ==
  IF item.run.workingDirectory # <<>> THEN item.run.workingDirectory
  ELSE FsPath(CHOOSE f \in Range(ws.folders) : f.index = item.folder)

\* the command on an item of the JetBrains section of the tree
RunJetBrainsConfig ==
  \E section \in Range(listSections(workspace, hiddenSections)) :
    /\ section.sectionType = JETBRAINS_CONFIGS
    /\ \E item \in Range(listTasks(workspace, hiddenItems, section)) :
         LET sent == JetBrainsCommand(item)
             got == getOrCreateTerminal(terminals, window,
                                        <<"JetBrains", ":", " ">> \o item.name,
                                        JetBrainsWorkDir(workspace, item))
         IN  /\ steps < MaxSteps
             /\ recentItems' = IF sent.thrown THEN recentItems
                               ELSE addRecentItem(recentItems, item)
             /\ last' = [op |-> "runJetBrainsConfig", item |-> item, thrown |-> sent.thrown,
                         command |-> sent.command, workDir |-> JetBrainsWorkDir(workspace, item),
                         envVars |-> item.run.envVars, before |-> recentItems,
                         issued |-> IF sent.thrown THEN 0 ELSE 1,
                         terminal |-> got.terminal, key |-> got.key,
                         terminalsBefore |-> terminals, windowBefore |-> window]
             /\ terminals' = got.terminals
             /\ window' = got.window
             /\ steps' = steps + 1
             /\ writes' = writes \o (IF sent.thrown THEN <<>> ELSE <<saveRecentItems(workspace, recentItems')>>)
             /\ UNCHANGED <<hiddenItems, hiddenSections, workspace, globalState, scans>>

InitRun ==
  /\ workspace \in
       {TreeWorkspace(<<FolderWith(NoLaunchJson,
                                   [exists |-> TRUE,
                                    files |-> <<[ext |-> ".xml", parses |-> TRUE,
                                                 configurations |-> <<element>>]>>],
                                   NoDir, NoMakefile)>>) : element \in RunElements}
  /\ hiddenItems = <<>>
  /\ hiddenSections = <<>>
  /\ recentItems = <<>>
  /\ last = NoLast
  /\ steps = 0
  /\ globalState = Persisted(workspace, recentItems, hiddenItems, hiddenSections)
  /\ writes = <<>>
  /\ terminals = <<>>
  /\ window = NoWindow
  /\ scans = NoScans

NextRun == ListTasks \/ RunJetBrainsConfig

SpecRun == InitRun /\ [][NextRun]_vars

(***************************************************************************)
(* A session: the commands that run a task, the platform completing the    *)
(* updates, and the next start, which rebuilds the recency store from      *)
(* storage (loadRecentItems)                                               *)
(***************************************************************************)
\* the open folder whose name and path are those stored with an entry
OpenFoldersOf(ws, entry) ==
  {f \in Range(ws.folders) :
     /\ entry.workspaceFolderName # <<>> /\ entry.workspaceFolderPath # <<>>
     /\ f.name = entry.workspaceFolderName /\ FsPath(f) = entry.workspaceFolderPath}

\* the properties loadRecentItems requires of an entry of each itemType
HasRequiredProperties(entry) ==
  LET properties == entry.properties
  IN  IF entry.itemType = "launch" THEN "configuration" \in DOMAIN properties
      ELSE IF entry.itemType = "script"
        THEN properties.detail # <<>> /\ properties.packageJsonPath # <<>>
      ELSE IF entry.itemType = "jetbrains" THEN "run" \in DOMAIN properties
      ELSE properties.makefilePath # <<>>

\* the item loadRecentItems constructs for an entry
RebuiltItem(folder, entry) ==
  LET properties == entry.properties
  IN  IF entry.itemType = "launch"
        THEN LaunchConfigurationItem(entry.name, properties.detail, properties.configuration,
                                     folder)
      ELSE IF entry.itemType = "script"
        THEN ScriptItem(entry.name, properties.detail, properties.packageJsonPath, folder,
                        "npm")
      ELSE IF entry.itemType = "jetbrains"
        THEN JetBrainsRunConfigItem([properties.run EXCEPT !.name = entry.name,
                                                           !.type = properties.detail],
                                    folder)
      ELSE MakefileTaskItem(entry.name, properties.makefilePath, folder, properties.detail)

\* the mutation of loadRecentItems that does not look for the folder of an
\* entry among the open ones
loadRecentItemsAnyRoot(ws, serializedItems) ==
  LET kept == SelectSeq(serializedItems, HasRequiredProperties)
  IN  [i \in 1..Len(kept) |-> RebuiltItem(ws.folders[1], kept[i])]

RECURSIVE loadRecentItems(_, _)
loadRecentItems(ws, serializedItems) ==
  IF serializedItems = <<>> THEN <<>>
  ELSE LET item == Head(serializedItems)
           found == OpenFoldersOf(ws, item)
           rest == loadRecentItems(ws, Tail(serializedItems))
       IN  IF found = {} \/ ~HasRequiredProperties(item) THEN rest
           ELSE <<RebuiltItem(CHOOSE f \in found : \A g \in found : f.index <= g.index,
                              item)>> \o rest

\* what running an item asks of the platform: a debug session, or a command
\* sent to a terminal opened in a directory after the exports of envVars
ExecutionRequest(ws, item) ==
  IF item.kind = "LaunchConfigurationItem"
    THEN [request |-> "startDebugging", folder |-> item.folder,
          configuration |-> item.configuration]
  ELSE IF item.kind = "ScriptItem"
    THEN [request |-> "sendText",
          command |-> <<item.packageManager, " ", "run", " ">> \o item.name,
          workDir |-> Dirname(item.packageJsonPath), envVars |-> <<>>]
  ELSE IF item.kind = "MakefileTaskItem"
    THEN [request |-> "sendText", command |-> <<"make", " ">> \o item.name,
          workDir |-> Dirname(item.makefilePath), envVars |-> <<>>]
  ELSE IF JetBrainsCommand(item).thrown THEN [request |-> "none"]
  ELSE [request |-> "sendText", command |-> JetBrainsCommand(item).command,
        workDir |-> JetBrainsWorkDir(ws, item), envVars |-> item.run.envVars]

\* what vscode.debug.startDebugging does: it resolves to true when the
\* session started, resolves to false when it could not, or rejects
DebugOutcomes == {"started", "not started", "rejected"}

\* launchConfigurations.launch
Launch ==
  \E section \in Range(listSections(workspace, hiddenSections)), outcome \in DebugOutcomes :
    /\ section.sectionType = LAUNCH_CONFIGURATIONS
    /\ \E item \in Range(listTasks(workspace, hiddenItems, section)) :
         /\ item.kind = "LaunchConfigurationItem"
         /\ steps < MaxSteps
         /\ recentItems' = IF outcome = "rejected" THEN recentItems
                           ELSE addRecentItem(recentItems, item)
         /\ writes' = writes \o (IF outcome = "rejected" THEN <<>>
                                  ELSE <<saveRecentItems(workspace, recentItems')>>)
         /\ last' = [op |-> "launch", item |-> item, outcome |-> outcome,
                     before |-> recentItems, issued |-> Len(writes') - Len(writes)]
         /\ steps' = steps + 1
         /\ UNCHANGED <<hiddenItems, hiddenSections, workspace, globalState, terminals, window, scans>>

\* launchConfigurations.runScript
RunScript ==
  \E section \in Range(listSections(workspace, hiddenSections)) :
    /\ section.sectionType = SCRIPTS
    /\ \E item \in Range(listTasks(workspace, hiddenItems, section)) :
         /\ steps < MaxSteps
         /\ recentItems' = addRecentItem(recentItems, item)
         /\ writes' = Append(writes, saveRecentItems(workspace, recentItems'))
         /\ LET got == ScriptTerminal(terminals, window, item)
            IN  /\ last' = [op |-> "runScript", item |-> item, outcome |-> "sent",
                            before |-> recentItems, issued |-> 1,
                            terminal |-> got.terminal, key |-> got.key,
                            terminalsBefore |-> terminals, windowBefore |-> window]
                /\ terminals' = got.terminals
                /\ window' = got.window
         /\ steps' = steps + 1
         /\ UNCHANGED <<hiddenItems, hiddenSections, workspace, globalState, scans>>

\* launchConfigurations.runMakefileTask
RunMakefileTask ==
  \E section \in Range(listSections(workspace, hiddenSections)) :
    /\ section.sectionType = MAKEFILE_TASKS
    /\ \E item \in Range(listTasks(workspace, hiddenItems, section)) :
         /\ steps < MaxSteps
         /\ recentItems' = addRecentItem(recentItems, item)
         /\ writes' = Append(writes, saveRecentItems(workspace, recentItems'))
         /\ LET got == MakefileTerminal(terminals, window, item)
            IN  /\ last' = [op |-> "runMakefileTask", item |-> item, outcome |-> "sent",
                            before |-> recentItems, issued |-> 1,
                            terminal |-> got.terminal, key |-> got.key,
                            terminalsBefore |-> terminals, windowBefore |-> window]
                /\ terminals' = got.terminals
                /\ window' = got.window
         /\ steps' = steps + 1
         /\ UNCHANGED <<hiddenItems, hiddenSections, workspace, globalState, scans>>

\* the next start, once the updates of the session have completed: the
\* constructors of the two stores read the three keys
Restart ==
  /\ steps < MaxSteps
  /\ writes = <<>>
  /\ recentItems' = loadRecentItems(workspace, globalState[RECENT_ITEMS_STORAGE_KEY])
  /\ hiddenItems' = globalState[ItemsStorageKey]
  /\ hiddenSections' = globalState[SectionsStorageKey]
  /\ last' = [op |-> "restart", before |-> recentItems,
              stored |-> globalState[RECENT_ITEMS_STORAGE_KEY]]
  /\ steps' = steps + 1
  /\ UNCHANGED <<workspace, globalState, writes, terminals, window, scans>>

\* a folder with one task of each kind; the scripts are run with the given tool
SessionFolder(packageManager) ==
  [name |-> <<"a">>, index |-> 1,
   launch |-> [exists |-> TRUE, readable |-> TRUE,
               configurations |-> <<[name |-> <<"a">>, type |-> <<"node">>]>>,
               compounds |-> <<>>],
   packages |-> (RootDir :> {<<"b">>, <<"c">>}), packageManager |-> packageManager,
   unreadable |-> {}, broken |-> {},
   runDir |-> [exists |-> TRUE,
               files |-> <<[ext |-> ".xml", parses |-> TRUE,
                            configurations |->
                              <<[ConfigurationElement(<<"c">>, ShConfigurationType)
                                   EXCEPT !.SCRIPT_TEXT = <<"e">>]>>]>>],
   ideaDir |-> NoDir,
   makefile |-> [exists |-> TRUE, content |-> <<"e", ":">>]]

SessionWorkspaces == {TreeWorkspace(<<SessionFolder(pm)>>) : pm \in {"npm", "yarn"}}

\* what storage can hold at the start: entries saved by sessions of this
\* workspace, and entries saved while a folder of another name or another
\* path was open
StoredEntries(ws) ==
  LET own == {SerializedRecentItem(ws, item) : item \in AllItems(ws)}
      script == {entry \in own : entry.itemType = "script"}
  IN  own \cup {[entry EXCEPT !.workspaceFolderName = <<"b">>] : entry \in script}
          \cup {[entry EXCEPT !.workspaceFolderPath = <<"/y", "/", "a">>] : entry \in script}

\* no two entries of a stored list are the same item
StoredLists(ws) ==
  {<<>>} \cup {<<x>> : x \in StoredEntries(ws)}
  \cup {pair \in {<<x, y>> : x, y \in StoredEntries(ws)} : pair[1].name # pair[2].name}

InitSession ==
  /\ workspace \in SessionWorkspaces
  /\ hiddenItems = <<>>
  /\ hiddenSections = <<>>
  /\ \E stored \in StoredLists(workspace) :
       /\ globalState = [Persisted(workspace, <<>>, <<>>, <<>>)
                           EXCEPT ![RECENT_ITEMS_STORAGE_KEY] = stored]
       /\ recentItems = loadRecentItems(workspace, stored)
  /\ last = NoLast
  /\ steps = 0
  /\ writes = <<>>
  /\ terminals = <<>>
  /\ window = NoWindow
  /\ scans = NoScans

NextSession ==
  \/ Launch \/ RunScript \/ RunMakefileTask \/ RunJetBrainsConfig \/ RunRecentItem
  \/ CompleteWrite \/ Restart

SpecSession == InitSession /\ [][NextSession]_vars

\* tasks are run and terminals are closed
NextTerminal ==
  RunScript \/ RunMakefileTask \/ RunJetBrainsConfig \/ RunRecentItem
  \/ CloseTerminal \/ OnDidCloseTerminal

SpecTerminal == InitSession /\ [][NextTerminal]_vars

\* the methods of a RecentItemWrapper that are not inherited from TreeItem
RecentItemWrapperMethods == {"execute", "removeFromRecentItems"}

\* launch-sidebar.removeRecentItem on a wrapper of the Recently Used section:
\* wrapper.remove(), then forceRefresh. Calling what is not a method throws,
\* and the command ends there.
RemoveRecentItemCommand ==
  \E i \in 1..Len(recentItems) :
    LET thrown == "remove" \notin RecentItemWrapperMethods
        after == IF thrown THEN recentItems
                 ELSE removeRecentItem(recentItems, recentItems[i])
        saved == IF thrown THEN <<>> ELSE RemovedItemSaved(workspace, recentItems, after)
    IN  /\ steps < MaxSteps
        /\ recentItems' = after
        /\ writes' = writes \o saved
        /\ last' = [op |-> "removeRecentItemCommand", item |-> recentItems[i],
                    before |-> recentItems, thrown |-> thrown, issued |-> Len(saved),
                    fired |-> Len(saved)]
        /\ steps' = steps + 1
        /\ UNCHANGED <<hiddenItems, hiddenSections, workspace, globalState, terminals,
                       window, scans>>

NextRemove ==
  RunScript \/ RunMakefileTask \/ RemoveRecentItemCommand \/ RemoveRecentItem \/ CompleteWrite

SpecRemove == InitSession /\ [][NextRemove]_vars

\* the calls of the recency store, the platform and the next start
NextStore ==
  AddRecentItem \/ RemoveRecentItem \/ ClearRecentItems \/ CompleteWrite \/ Restart

SpecStore == InitSession /\ [][NextStore]_vars

\* the mutations of the two stores and the platform completing their updates
InitWrites ==
  /\ workspace = TreeWorkspace(<<SessionFolder("npm")>>)
  /\ hiddenItems = <<>>
  /\ hiddenSections = <<>>
  /\ \E stored \in {list \in StoredLists(workspace) : Len(list) <= 1} :
       /\ globalState = [Persisted(workspace, <<>>, <<>>, <<>>)
                           EXCEPT ![RECENT_ITEMS_STORAGE_KEY] = stored]
       /\ recentItems = loadRecentItems(workspace, stored)
  /\ last = NoLast
  /\ steps = 0
  /\ writes = <<>>
  /\ terminals = <<>>
  /\ window = NoWindow
  /\ scans = NoScans

NextWrites ==
  \/ AddRecentItem \/ RemoveRecentItem \/ ClearRecentItems
  \/ HideItem \/ RestoreItem \/ HideSection \/ RestoreSection
  \/ ClearAllHidden \/ ClearHiddenSections \/ ClearHiddenItems
  \/ CompleteWrite

SpecWrites == InitWrites /\ [][NextWrites]_vars

\* launchConfigurations.hideSection called with the Recently Used section
HideRecentItemsSection ==
  /\ steps < MaxSteps
  /\ hiddenSections' = hideSection(hiddenSections,
                                   HiddenSectionOf(workspace, RecentItemsSection))
  /\ last' = [op |-> "hideSection", section |-> RecentItemsSection,
              before |-> hiddenSections, beforeItems |-> hiddenItems,
              fired |-> Len(HiddenSectionsSaved(hiddenSections, hiddenSections'))]
  /\ steps' = steps + 1
  /\ writes' = writes \o HiddenSectionsSaved(hiddenSections, hiddenSections')
  /\ UNCHANGED <<recentItems, hiddenItems, workspace, globalState, terminals, window, scans>>

\* the tree read while tasks are run and sections are hidden
NextRecentSection ==
  \/ ListSections \/ ListTasks \/ HideSection \/ HideRecentItemsSection
  \/ RunScript \/ ClearRecentItems

SpecRecentSection == InitSession /\ [][NextRecentSection]_vars

(***************************************************************************)
(* File watchers: setupFileWatchers                                        *)
(***************************************************************************)
RECURSIVE Segments(_)
\* the segments of a path, which "/" separates
Segments(path) ==
  IF \A i \in 1..Len(path) : path[i] # "/" THEN <<path>>
  ELSE LET i == CHOOSE k \in 1..Len(path) :
                  path[k] = "/" /\ \A j \in 1..(k - 1) : path[j] # "/"
       IN  <<SubSeq(path, 1, i - 1)>> \o Segments(SubSeq(path, i + 1, Len(path)))

LaunchJsonPattern == "**/.vscode/launch.json"
PackageJsonPattern == "**/package.json"
JetBrainsConfigPattern == "**/.run/**/*.xml"
MakefilePattern == "**/Makefile"

\* the watchers that activation creates, each by its glob pattern
FileSystemWatchers ==
  {LaunchJsonPattern, PackageJsonPattern, JetBrainsConfigPattern, MakefilePattern}

\* a glob pattern against a path below a workspace folder: ** stands for any
\* number of segments, * for any characters of one segment
Matches(pattern, path) ==
  LET segments == Segments(path)
      n == Len(segments)
  IN  CASE pattern = LaunchJsonPattern ->
             n >= 2 /\ segments[n - 1] = <<".vscode">> /\ segments[n] = <<"launch.json">>
        [] pattern = PackageJsonPattern -> segments[n] = PackageJson
        [] pattern = JetBrainsConfigPattern ->
             /\ \E i \in 1..(n - 1) : segments[i] = <<".run">>
             /\ segments[n] # <<>> /\ segments[n][Len(segments[n])] = ".xml"
        [] pattern = MakefilePattern -> segments[n] = MakefileName

\* the watchers a notification about the path reaches
WatchersOf(path) == {pattern \in FileSystemWatchers : Matches(pattern, path)}

\* the files the readers read, by their paths below the workspace folder
LaunchJsonPath == <<".vscode", "/", "launch.json">>
RunXmlPath == <<".run", "/", "a", ".xml">>
IdeaXmlPath == <<".idea", "/", "runConfigurations", "/", "a", ".xml">>
WatchedDirs == {RootDir, <<"c">>}
ReadPaths ==
  {LaunchJsonPath, MakefileName, RunXmlPath, IdeaXmlPath}
  \cup {ManifestPath(dir) : dir \in WatchedDirs}

DirOf(path) == CHOOSE dir \in WatchedDirs : ManifestPath(dir) = path

XmlFileOf(name) ==
  [ext |-> ".xml", parses |-> TRUE,
   configurations |-> <<ConfigurationElement(name, ShConfigurationType)>>]

\* what a file at the path can hold
Contents(path) ==
  CASE path = LaunchJsonPath ->
         {SampleLaunchJson,
          [exists |-> TRUE, readable |-> TRUE,
           configurations |-> <<[name |-> <<"a">>, type |-> <<"node">>]>>,
           compounds |-> <<>>]}
    [] path = MakefileName ->
         {[exists |-> TRUE, content |-> <<"a", ":">>],
          [exists |-> TRUE, content |-> <<"b", ":">>]}
    [] path \in {RunXmlPath, IdeaXmlPath} -> {XmlFileOf(<<"a">>), XmlFileOf(<<"b">>)}
    [] OTHER -> {{<<"a">>}, {<<"b">>}}

FileExists(folder, path) ==
  CASE path = LaunchJsonPath -> folder.launch.exists
    [] path = MakefileName -> folder.makefile.exists
    [] path = RunXmlPath -> folder.runDir.files # <<>>
    [] path = IdeaXmlPath -> folder.ideaDir.files # <<>>
    [] OTHER -> DirOf(path) \in DOMAIN folder.packages

Holds(folder, path, content) ==
  CASE path = LaunchJsonPath -> folder.launch = content
    [] path = MakefileName -> folder.makefile = content
    [] path = RunXmlPath -> folder.runDir.files = <<content>>
    [] path = IdeaXmlPath -> folder.ideaDir.files = <<content>>
    [] OTHER -> folder.packages[DirOf(path)] = content

\* the folder once the file at the path holds the content
Written(folder, path, content) ==
  CASE path = LaunchJsonPath -> [folder EXCEPT !.launch = content]
    [] path = MakefileName -> [folder EXCEPT !.makefile = content]
    [] path = RunXmlPath -> [folder EXCEPT !.runDir = [exists |-> TRUE, files |-> <<content>>]]
    [] path = IdeaXmlPath ->
         [folder EXCEPT !.ideaDir = [exists |-> TRUE, files |-> <<content>>]]
    [] OTHER -> [folder EXCEPT !.packages = (DirOf(path) :> content) @@ @]

\* the folder once the file at the path is gone
Removed(folder, path) ==
  CASE path = LaunchJsonPath -> [folder EXCEPT !.launch = NoLaunchJson]
    [] path = MakefileName -> [folder EXCEPT !.makefile = NoMakefile]
    [] path = RunXmlPath -> [folder EXCEPT !.runDir = [exists |-> TRUE, files |-> <<>>]]
    [] path = IdeaXmlPath -> [folder EXCEPT !.ideaDir = [exists |-> TRUE, files |-> <<>>]]
    [] OTHER -> [folder EXCEPT !.packages = Restrict(@, DOMAIN @ \ {DirOf(path)})]

\* a notification the platform has not yet handed to the watchers it reaches
NotificationPending == last.op = "fileEvent" /\ WatchersOf(last.path) # {}

FileEvent(event, path) == [op |-> "fileEvent", event |-> event, path |-> path]

FileCreated ==
  \E path \in ReadPaths, i \in 1..Len(workspace.folders) :
    \E content \in Contents(path) :
      /\ steps < MaxSteps
      /\ ~NotificationPending
      /\ ~FileExists(workspace.folders[i], path)
      /\ workspace' = [workspace EXCEPT !.folders[i] = Written(@, path, content)]
      /\ last' = FileEvent("create", path)
      /\ steps' = steps + 1
      /\ UNCHANGED <<recentItems, hiddenItems, hiddenSections, globalState, writes, terminals, window, scans>>

FileChanged ==
  \E path \in ReadPaths, i \in 1..Len(workspace.folders) :
    \E content \in Contents(path) :
      /\ steps < MaxSteps
      /\ ~NotificationPending
      /\ FileExists(workspace.folders[i], path)
      /\ ~Holds(workspace.folders[i], path, content)
      /\ workspace' = [workspace EXCEPT !.folders[i] = Written(@, path, content)]
      /\ last' = FileEvent("change", path)
      /\ steps' = steps + 1
      /\ UNCHANGED <<recentItems, hiddenItems, hiddenSections, globalState, writes, terminals, window, scans>>

FileDeleted ==
  \E path \in ReadPaths, i \in 1..Len(workspace.folders) :
    /\ steps < MaxSteps
    /\ ~NotificationPending
    /\ FileExists(workspace.folders[i], path)
    /\ workspace' = [workspace EXCEPT !.folders[i] = Removed(@, path)]
    /\ last' = FileEvent("delete", path)
    /\ steps' = steps + 1
    /\ UNCHANGED <<recentItems, hiddenItems, hiddenSections, globalState, writes, terminals, window, scans>>

\* onDidChange, onDidCreate, onDidDelete of a watcher: refresh()
WatcherFires ==
  /\ NotificationPending
  /\ last' = [op |-> "refresh", event |-> last.event, path |-> last.path,
              watchers |-> WatchersOf(last.path)]
  /\ UNCHANGED <<recentItems, hiddenItems, hiddenSections, workspace, steps,
                 globalState, writes, terminals, window, scans>>

WatchedFolders ==
  [name : {<<"a">>}, index : {1}, launch : {NoLaunchJson, SampleLaunchJson},
   packages : {Restrict(SampleScripts, D) : D \in {{}, {RootDir}, {RootDir, <<"c">>}}},
   packageManager : {"npm"}, unreadable : {{}}, broken : {{}},
   runDir : {NoDir, [exists |-> TRUE, files |-> <<XmlFileOf(<<"a">>)>>]},
   ideaDir : {NoDir, [exists |-> TRUE, files |-> <<XmlFileOf(<<"a">>)>>]},
   makefile : {NoMakefile, [exists |-> TRUE, content |-> <<"a", ":">>]}]

\* the state once activate has returned
InitWatch ==
  /\ workspace \in {TreeWorkspace(<<folder>>) : folder \in WatchedFolders}
  /\ hiddenItems = <<>>
  /\ hiddenSections = <<>>
  /\ recentItems = <<>>
  /\ last = NoLast
  /\ steps = 0
  /\ globalState = Persisted(workspace, recentItems, hiddenItems, hiddenSections)
  /\ writes = <<>>
  /\ terminals = <<>>
  /\ window = NoWindow
  /\ scans = NoScans

NextWatch == FileCreated \/ FileChanged \/ FileDeleted \/ WatcherFires

\* the platform hands every notification to the watchers whose pattern it
\* matches
SpecWatch == InitWatch /\ [][NextWatch]_vars /\ WF_vars(WatcherFires)

(***************************************************************************)
(* Claims about the visibility store.                                      *)
(***************************************************************************)
\* the tasks every section of the workspace lists under a hidden-task list
TasksUnder(hidden) ==
  [s \in RealSections(workspace) |-> listTasks(workspace, hidden, s)]

\* C3: hiding a task that a section shows and then restoring its identity
\* leaves the hidden-task list as it was before the hide, and every section
\* lists the same sequence of tasks as before the hide; hiding a task that is
\* already hidden, and restoring one that is not hidden, change nothing.
C3_HideThenRestore ==
  /\ (/\ last.op = "restoreItem"
      /\ last.earlier.op = "hideItem"
      /\ last.earlier.id = last.id
      /\ ~isItemHidden(last.earlier.before, last.id))
     => /\ hiddenItems = last.earlier.before
        /\ TasksUnder(hiddenItems) = TasksUnder(last.earlier.before)
  /\ (last.op = "hideItem" /\ isItemHidden(last.before, last.id))
     => hiddenItems = last.before
  /\ (last.op = "restoreItem" /\ ~isItemHidden(last.before, last.id))
     => hiddenItems = last.before

\* a task shown second in its section was hidden, which removed it from the
\* section, and was then restored, while another task stays hidden
C3_Witness ==
  /\ last.op = "restoreItem"
  /\ last.earlier.op = "hideItem"
  /\ last.earlier.id = last.id
  /\ last.earlier.before # <<>>
  /\ last.before # last.earlier.before
  /\ \E s \in RealSections(workspace) :
       /\ Len(listTasks(workspace, hiddenItems, s)) >= 2
       /\ ItemId(listTasks(workspace, hiddenItems, s)[2]) = last.id
       /\ listTasks(workspace, last.before, s) # listTasks(workspace, hiddenItems, s)

\* C4: after hideSection on the computed identity of a script section the
\* section list no longer holds that section, and every other section it held
\* before is still listed, with the same tasks.
C4_HideSectionFrame ==
  (last.op = "hideSection" /\ last.section.sectionType = SCRIPTS)
  => /\ last.section \notin Range(listSections(workspace, hiddenSections))
     /\ \A other \in Range(listSections(workspace, last.before)) :
          other # last.section
          => /\ other \in Range(listSections(workspace, hiddenSections))
             /\ listTasks(workspace, hiddenItems, other)
                = listTasks(workspace, last.beforeItems, other)

(***************************************************************************)
(* Claims about the source readers.                                        *)
(***************************************************************************)
\* every entry of the file has what the reader asks of it
ValidLaunchJson(file) ==
  /\ file.exists /\ file.readable
  /\ \A i \in 1..Len(file.configurations) :
       file.configurations[i].name # <<>> /\ file.configurations[i].type # <<>>
  /\ \A i \in 1..Len(file.compounds) :
       file.compounds[i].name # <<>> /\ file.compounds[i].hasConfigurations

Occurrences(seq, x) == Cardinality({i \in 1..Len(seq) : seq[i] = x})

SameEntries(s, t) ==
  Len(s) = Len(t) /\ \A x \in Range(s) \cup Range(t) : Occurrences(s, x) = Occurrences(t, x)

AscendingByName(items) ==
  \A i, j \in 1..Len(items) : i < j => ~localeCompareLess(items[j].name, items[i].name)

NameAndType(items) == [i \in 1..Len(items) |-> [name |-> items[i].name, type |-> items[i].detail]]

CompoundEntryTasks(file) ==
  [i \in 1..Len(file.compounds) |-> [name |-> file.compounds[i].name, type |-> Compound]]

\* the launch section of a valid file was listed while none of its tasks is hidden
ValidLaunchListed ==
  /\ last.op = "listTasks"
  /\ last.section.sectionType = LAUNCH_CONFIGURATIONS
  /\ ValidLaunchJson(FolderOf(workspace, last.section).launch)
  /\ \A item \in Range(SectionItems(workspace, last.section)) : shouldShowItem(hiddenItems, item)

\* C8, as stated: for a valid launch.json none of whose tasks is hidden,
\* listTasks of the launch section returns one task per entry of configurations
\* and of compounds, and the list as a whole ascends by task name.
C8_OnePerEntryWholeListSorted ==
  ValidLaunchListed
  => LET file == FolderOf(workspace, last.section).launch
     IN  /\ SameEntries(NameAndType(last.items),
                        file.configurations \o CompoundEntryTasks(file))
         /\ AscendingByName(last.items)

\* C8, amended: one task per entry; the tasks of configurations come first, in
\* ascending order of name, and the tasks of compounds follow them, in
\* ascending order of name.
C8_OnePerEntryEachArraySorted ==
  ValidLaunchListed
  => LET file == FolderOf(workspace, last.section).launch
         n == Len(file.configurations)
     IN  /\ Len(last.items) = n + Len(file.compounds)
         /\ SameEntries(NameAndType(SubSeq(last.items, 1, n)), file.configurations)
         /\ SameEntries(NameAndType(SubSeq(last.items, n + 1, Len(last.items))),
                        CompoundEntryTasks(file))
         /\ AscendingByName(SubSeq(last.items, 1, n))
         /\ AscendingByName(SubSeq(last.items, n + 1, Len(last.items)))

\* two configurations written out of order and a compound whose name lies
\* between theirs were listed
C8_Witness ==
  /\ ValidLaunchListed
  /\ LET file == FolderOf(workspace, last.section).launch
     IN  /\ Len(file.configurations) = 2
         /\ file.configurations[1].name = <<"c">>
         /\ file.configurations[2].name = <<"a">>
         /\ Len(file.compounds) = 1
         /\ file.compounds[1].name = <<"b">>
  /\ Len(last.items) = 3
  /\ last.items[1].name = <<"a">>
  /\ last.items[3].name = <<"b">>

\* the lines of the Makefile that targetRegex matches
TargetLines(fileLines) ==
  SelectSeq([i \in 1..Len(fileLines) |-> i], LAMBDA i : TargetMatchLen(fileLines[i]) > 0)

\* the indented, non-comment lines right after line i, trimmed, up to the
\* first line that is not one of them
FollowingRecipe(fileLines, i) ==
  Join(RecipeLines(SubSeq(fileLines, i + 1, Len(fileLines))), Newline)

\* C9: the recipe preview of every target of a Makefile is made of the
\* indented, non-comment lines that follow the target line, trimmed, up to the
\* first line that is not indented; a target with no such line has an empty
\* preview.
C9_RecipeIsFollowingIndentedLines ==
  (last.op = "listTasks" /\ last.section.sectionType = MAKEFILE_TASKS)
  => LET fileLines == Split(FolderOf(workspace, last.section).makefile.content)
         targets == TargetLines(fileLines)
     IN  /\ Len(last.items) = Len(targets)
         /\ \A k \in 1..Len(targets) :
              last.items[k].detail = FollowingRecipe(fileLines, targets[k])

\* C10: the section list holds a JetBrains section for a folder only if the
\* reader of run configurations returns at least one task for that folder.
C10_SectionOnlyWithATask ==
  last.op = "listSections"
  => \A i \in 1..Len(last.sections) :
       last.sections[i].sectionType = JETBRAINS_CONFIGS
       => getJetBrainsConfigurations(FolderOf(workspace, last.sections[i])) # <<>>

(***************************************************************************)
(* Claims about the run configurations that are surfaced and run.          *)
(***************************************************************************)
ContainsProjectDir(value) == \E i \in 1..Len(value) : value[i] = ProjectDir

\* the fields of a surfaced run configuration that are extracted from the file
ExtractedFields(run) ==
  {run.packagePath, run.workingDirectory, run.goParameters, run.scriptText, run.command}

\* C11: in every task the run-configuration reader surfaces, no extracted
\* field (package path, script path, working directory, parameters, script
\* text) still contains the token $PROJECT_DIR$.
C11_NoProjectDirToken ==
  (last.op = "listTasks" /\ last.section.sectionType = JETBRAINS_CONFIGS)
    => \A item \in Range(last.items) :
         \A value \in ExtractedFields(item.run) : ~ContainsProjectDir(value)

\* C12: every run configuration listTasks returns has something to run: the
\* command built for it does not throw and is a non-empty shell command (a
\* configuration with nothing to run is not surfaced).
C12_EveryListedTaskRuns ==
  (last.op = "listTasks" /\ last.section.sectionType = JETBRAINS_CONFIGS)
    => \A item \in Range(last.items) :
         /\ ~JetBrainsCommand(item).thrown
         /\ JetBrainsCommand(item).command # <<>>

(***************************************************************************)
(* Claims about what the recency store keeps across sessions.              *)
(***************************************************************************)
\* the start rebuilt the list that the session before it had saved
RestartOfSavedList ==
  /\ last.op = "restart"
  /\ globalState[RECENT_ITEMS_STORAGE_KEY] = SerializedItems(workspace, last.before)

\* C13: every entry rebuilt from storage at the next start, with the same
\* folders open, asks for the same execution as the task that was recorded:
\* same command (same package manager for a script), same working directory,
\* same environment variables.
C13_RebuiltEntryRunsTheSame ==
  RestartOfSavedList
    => /\ Len(recentItems) = Len(last.before)
       /\ \A i \in 1..Len(recentItems) :
            ExecutionRequest(workspace, recentItems[i])
              = ExecutionRequest(workspace, last.before[i])

\* the value a key holds once the updates issued so far have completed
Latest(key) ==
  LET issued == SelectSeq(writes, LAMBDA w : w.key = key)
  IN  IF issued = <<>> THEN globalState[key] ELSE issued[Len(issued)].value

RootMatches(entry) == OpenFoldersOf(workspace, entry) # {}

Rebuildable(entry) == RootMatches(entry) /\ HasRequiredProperties(entry)

\* C14 as stated: the start yields exactly the stored entries whose folder
\* name and path match an open folder, in stored order, and writes nothing;
\* every later addRecentItem, removeRecentItem or clearRecentItems rewrites
\* storage from the list in memory.
C14_ExactlyMatchingRootsEveryCallRewrites ==
  /\ last.op = "restart"
       => /\ SerializedItems(workspace, recentItems) = SelectSeq(last.stored, RootMatches)
          /\ writes = <<>>
          /\ globalState[RECENT_ITEMS_STORAGE_KEY] = last.stored
  /\ last.op \in {"add", "remove", "clear"}
       => Latest(RECENT_ITEMS_STORAGE_KEY) = SerializedItems(workspace, recentItems)

\* C14, amended: the start yields exactly the stored entries whose folder
\* name and path match an open folder and that carry the properties their
\* type requires, in stored order, and writes nothing, so that the dropped
\* entries stay in storage; every later addRecentItem, clearRecentItems, or
\* removeRecentItem that removes an item, rewrites storage from the list in
\* memory.
C14_RebuildableEntriesEffectiveCallRewrites ==
  /\ last.op = "restart"
       => /\ SerializedItems(workspace, recentItems) = SelectSeq(last.stored, Rebuildable)
          /\ writes = <<>>
          /\ globalState[RECENT_ITEMS_STORAGE_KEY] = last.stored
  /\ (last.op \in {"add", "clear"} \/ (last.op = "remove" /\ Present(last.before, last.item)))
       => Latest(RECENT_ITEMS_STORAGE_KEY) = SerializedItems(workspace, recentItems)

\* a start that kept one stored entry and dropped another
C14_Witness ==
  /\ last.op = "restart"
  /\ Len(recentItems) = 1
  /\ Len(last.stored) = 2
  /\ ~RootMatches(last.stored[1])

\* the last command tried to launch a task and nothing was launched: the debug
\* session did not start, no command could be determined, or the item taken
\* from Recently Used has nothing that runs it
LaunchFailed ==
  \/ last.op = "launch" /\ last.outcome # "started"
  \/ last.op = "runJetBrainsConfig" /\ last.thrown
  \/ last.op = "run" /\ ~last.ran

\* C15: when launching a task fails, from its own section or from Recently
\* Used, the recency list is what it was before the attempt, no update of
\* storage is issued, and the two hidden lists are untouched.
C15_FailedLaunchChangesNothing ==
  LaunchFailed
    => /\ recentItems = last.before
       /\ last.issued = 0
       /\ hiddenItems = <<>> /\ hiddenSections = <<>>

(***************************************************************************)
(* Claims about the notifications and the updates of the two stores.       *)
(***************************************************************************)
\* the last call of the visibility store changed one of its lists
HiddenListsMutated ==
  \/ last.op \in {"hideItem", "restoreItem"} /\ hiddenItems # last.before
  \/ last.op \in {"hideSection", "restoreSection"} /\ hiddenSections # last.before
  \/ last.op \in {"clearHiddenItems", "clearHiddenSections", "clearAllHidden"}

\* C16: every call of the visibility store that changes it (hideItem,
\* hideSection, restoreItem, restoreSection, clearHiddenItems,
\* clearHiddenSections, clearAllHidden) fires onDidChangeHiddenItems exactly
\* once.
C16_OneNotificationPerMutation ==
  HiddenListsMutated => last.fired = 1

\* the recency list is what the start loaded and storage what it loaded from:
\* the recency store has not been mutated
RecencyAsLoaded ==
  recentItems = loadRecentItems(workspace, globalState[RECENT_ITEMS_STORAGE_KEY])

C18_RecentlyUsedFirstNeverHidden ==
  /\ listSections(workspace, hiddenSections) # <<>>
  /\ Head(listSections(workspace, hiddenSections)) = RecentItemsSection
  /\ last.op = "listSections" => Head(last.sections) = RecentItemsSection
  /\ (last.op = "listTasks" /\ last.section = RecentItemsSection)
       => last.items = recentItems

\* the sections are listed after hideSection was called with Recently Used,
\* while tasks are recorded
C18_Witness ==
  /\ last.op = "listSections"
  /\ isSectionHidden(hiddenSections, generateSectionId(workspace, RecentItemsSection))
  /\ recentItems # <<>>

\* C19: the identity of a section is a function of its type, the name of its
\* folder and the relative path of its manifest or Makefile, and within one
\* scan two distinct sections never have the same identity.
C19_SectionIdsDeterministicAndDistinct ==
  \A s, t \in Range(getSections(workspace)) :
    /\ (s.folder # 0 /\ t.folder # 0 /\ s.sectionType = t.sectionType /\ s.path = t.path
          /\ FolderOf(workspace, s).name = FolderOf(workspace, t).name)
         => generateSectionId(workspace, s) = generateSectionId(workspace, t)
    /\ s # t => generateSectionId(workspace, s) # generateSectionId(workspace, t)

(***************************************************************************)
(* Claims about the file watchers.                                         *)
(***************************************************************************)
\* C20: once the extension is active, the creation, the change and the
\* deletion of every file a reader reads (launch.json, every scanned
\* package.json, the Makefile, the XML files of .run and of
\* .idea/runConfigurations) leads to a refresh of the provider for that event.
C20_EveryReadFileLeadsToRefresh ==
  \A path \in ReadPaths : \A event \in {"create", "change", "delete"} :
    (last = FileEvent(event, path))
      ~> (last.op = "refresh" /\ last.path = path /\ last.event = event)

(***************************************************************************)
(* Claims about failures during a scan.                                    *)
(***************************************************************************)
\* the directory is not inside a directory of the root that cannot be listed
Reachable(folder, dir) ==
  \A parent \in folder.unreadable : ~Includes(dir, parent \o <<"/">>)

\* C21: a failure on one item does not stop the scan of the others: every
\* run-configuration file that parses yields its tasks whatever the other
\* files do, every manifest in a directory that can be reached gets its
\* section even when another directory of the root cannot be listed, and every
\* root gets its sections whatever happens in the other roots.
C21_OneFailureStopsNothingElse ==
  /\ last.op = "listSections" =>
       \A folder \in Range(workspace.folders) :
         \A dir \in DOMAIN folder.packages :
           (dir \in Range(NestedDirs) /\ ~Includes(dir, <<"node_modules">>)
              /\ Reachable(folder, dir))
             => SectionItem(SCRIPTS, folder, ManifestPath(dir)) \in Range(last.sections)
  /\ (last.op = "listTasks" /\ last.section.sectionType = JETBRAINS_CONFIGS) =>
       LET folder == FolderOf(workspace, last.section)
       IN  \A file \in Range(folder.runDir.files) :
             (IsXmlFile(file) /\ file.parses) =>
               \A config \in Range(ParsedConfigurations(file, folder)) :
                 \E item \in Range(last.items) : item.name = config.name

IsErrorItem(item) == item.kind = "LaunchConfigurationErrorItem"

\* C22: every reader returns a list whatever its file holds: for a launch.json
\* that does not parse the list holds the error item, and for a package.json
\* or run-configuration file that does not parse the list is empty; a list of
\* scripts, Makefile tasks or run configurations never holds an error item.
C22_ParseFailureGivesErrorItemOrNothing ==
  last.op = "listTasks" =>
    LET folder == FolderOf(workspace, last.section)
    IN  /\ (last.section.sectionType = LAUNCH_CONFIGURATIONS
              /\ LaunchJsonPath \in folder.broken)
             => \E item \in Range(last.items) : IsErrorItem(item)
        /\ (last.section.sectionType = SCRIPTS /\ last.section.path \in folder.broken)
             => last.items = <<>>
        /\ (last.section.sectionType = JETBRAINS_CONFIGS
              /\ \A file \in Range(folder.runDir.files) : ~file.parses)
             => last.items = <<>>
        /\ last.section.sectionType # LAUNCH_CONFIGURATIONS
             => \A item \in Range(last.items) : ~IsErrorItem(item)

(***************************************************************************)
(* Claims about the package manager of a folder's scripts.                 *)
(***************************************************************************)
\* C23: the script tasks of one workspace folder, those of the root manifest
\* and those of every nested manifest, all get the same package manager,
\* with or without a lock file at the root of the folder.
C23_OneManagerPerFolder ==
  last.op = "getPackageScripts" =>
    \A rel, other \in DOMAIN last.managers : last.managers[rel] = last.managers[other]

(***************************************************************************)
(* Claims about the terminals.                                             *)
(***************************************************************************)
\* the last operation ran a task in a terminal
TerminalAsked ==
  last.op \in {"runScript", "runMakefileTask", "runJetBrainsConfig", "run"}
  /\ last.terminal # 0

\* C24: a task run while the terminal kept for its key is open gets that
\* terminal and no terminal is created; the terminal a run uses is open; and
\* a run whose key is kept with a closed terminal creates a new terminal,
\* which takes the place of the closed one under the key.
C24_OpenTerminalReusedClosedReplaced ==
  TerminalAsked =>
    LET kept == last.terminalsBefore
        open == last.windowBefore.terminals
    IN  /\ last.terminal \in window.terminals
        /\ terminals[last.key] = last.terminal
        /\ (last.key \in DOMAIN kept /\ kept[last.key] \in open)
             => /\ last.terminal = kept[last.key]
                /\ window.created = last.windowBefore.created
        /\ (last.key \in DOMAIN kept /\ kept[last.key] \notin open)
             => /\ last.terminal > last.windowBefore.created
                /\ window.created = last.terminal

\* a script is run again after its terminal was closed and before the close
\* event was handled: the key gets a new terminal
C24_Witness ==
  /\ last.op = "runScript"
  /\ last.key \in DOMAIN last.terminalsBefore
  /\ last.terminalsBefore[last.key] \notin last.windowBefore.terminals
  /\ last.windowBefore.closed > 0
  /\ terminals[last.key] = last.terminal
  /\ last.terminal \in window.terminals

(***************************************************************************)
(* Claims about the commands of the Recently Used section.                 *)
(***************************************************************************)
\* C25: the remove command on an entry of the Recently Used section leaves
\* the list without any entry of that name and kind and with the other
\* entries in their order, issues the write of the shortened list and fires
\* the change event; removing a task that is not in the list changes neither
\* the list nor storage.
C25_RemoveCommandRemovesTheEntry ==
  /\ last.op = "removeRecentItemCommand" =>
       /\ recentItems = Without(last.before, last.item)
       /\ last.issued = 1
       /\ last.fired = 1
  /\ (last.op = "remove" /\ ~Present(last.before, last.item)) =>
       /\ recentItems = last.before
       /\ last.issued = 0

(***************************************************************************)
(* Claims about the hidden tasks of a section.                             *)
(***************************************************************************)
\* the tasks of the section that listTasks leaves out
FilteredOut(ws, hidden, section) ==
  Len(SectionItems(ws, section)) - Len(listTasks(ws, hidden, section))

\* C26: the number of the "N hidden" indicator of a section other than
\* Recently Used is the number of tasks the scan finds in that section and
\* listTasks leaves out; a section none of whose tasks is left out has no
\* indicator.
C26_IndicatorCountsFilteredTasks ==
  (last.op = "getTreeItem" /\ last.section.sectionType # RECENT) =>
    last.hidden = FilteredOut(workspace, hiddenItems, last.section)

(***************************************************************************)
(* Claims about the script heuristic of the package manager resolver.      *)
(***************************************************************************)
\* the script body starts with the tool's name and a space
Invokes(script, tool) ==
  /\ Len(script) >= Len(tool)
  /\ SubSeq(script, 1, Len(tool)) = tool

\* some script invokes the tool and none invokes another of the three
InvokesOnly(scripts, tool) ==
  /\ \E i \in 1..Len(scripts) : Invokes(scripts[i], tool)
  /\ \A i \in 1..Len(scripts) :
       \A other \in {PnpmSpace, YarnSpace, NpmSpace} \ {tool} : ~Invokes(scripts[i], other)

\* C27: for a manifest without a packageManager field and without engines,
\* resolved without an inherited choice, scripts that invoke only pnpm give
\* pnpm and scripts that invoke only yarn give yarn, decided by the manifest
\* before any lock file is looked at.
C27_ScriptsDecideBeforeLockFiles ==
  (/\ last.op \in {"detectPackageManager", "getPackageScripts"}
   /\ last.result.via # "inherited"
   /\ workspace.manifest.state = "ok"
   /\ workspace.manifest.packageManager = "none"
   /\ workspace.manifest.engines = {}
   /\ workspace.manifest.hasScripts)
  => /\ InvokesOnly(workspace.manifest.scripts, PnpmSpace)
          => last.result = [pm |-> "pnpm", via |-> "manifest",
                            consulted |-> {workspace.root \o workspace.rel}]
     /\ InvokesOnly(workspace.manifest.scripts, YarnSpace)
          => last.result = [pm |-> "yarn", via |-> "manifest",
                            consulted |-> {workspace.root \o workspace.rel}]

(***************************************************************************)
(* Claims about which tasks a hidden identity covers.                      *)
(***************************************************************************)
\* the identity strings the store holds
HiddenIds(hidden) == {hidden[i].id : i \in 1..Len(hidden)}

\* the tasks of the workspace with the name and the kind of a task whose
\* identity string is id
SameNameAndKind(ws, id) ==
  {item \in AllItems(ws) :
     \E task \in AllItems(ws) :
       /\ ItemId(task) = id
       /\ task.name = item.name
       /\ task.contextValue = item.contextValue}

\* the tasks that expanding the sections of the workspace shows
Shown(ws, hidden) == UNION {Range(listTasks(ws, hidden, s)) : s \in RealSections(ws)}

RECURSIVE DepthAt(_, _, _)
DepthAt(text, from, k) ==
  IF k <= from THEN 1
  ELSE DepthAt(text, from, k - 1)
       + (IF text[k] = "{" THEN 1 ELSE IF text[k] = "}" THEN -1 ELSE 0)

\* the block that the match opens is not closed before the document ends
NeverClosed(text, match) ==
  /\ match.matched
  /\ \A k \in (match.index + match.length + 1)..Len(text) :
       DepthAt(text, match.index + match.length, k) # 0

\* C29: findConfigPosition returns on every document, and when the brace
\* depth of the matched block never comes back to zero before the end of the
\* document it returns no position.
C29_TerminatesAndUnknownWhenUnbalanced ==
  /\ <>(last.op = "findConfigPosition" /\ last.pc = "returned")
  /\ [](/\ last.op = "findConfigPosition"
        /\ last.pc = "returned"
        /\ NeverClosed(workspace.text, last.match)
        => last.result = NoPosition)

(***************************************************************************)
(* Claims about scans that overlap.                                        *)
(***************************************************************************)
\* C30: a step of a scan changes neither the Recently Used list nor the
\* hidden tasks and sections nor storage, nor the other scan; and two scans
\* of the same element that have both returned, with the stores as they were
\* when either was started, returned equal results, which are what a scan
\* alone returns.
C30_ScansAreReadOnlyAndAgree ==
  /\ [][scans' # scans =>
          /\ UNCHANGED <<recentItems, hiddenItems, hiddenSections, globalState, writes,
                         workspace>>
          /\ \A k \in 1..Len(scans) :
               scans'[k] # scans[k] => \A j \in 1..Len(scans) \ {k} : scans'[j] = scans[j]]_vars
  /\ []((/\ scans[1].pc = "returned"
         /\ scans[2].pc = "returned"
         /\ scans[1].seen = Stores
         /\ scans[2].seen = Stores)
        => /\ scans[1].result = scans[2].result
           /\ scans[1].result =
                IF scans[1].element = NoElement
                THEN listSections(workspace, hiddenSections)
                ELSE IF scans[1].element.sectionType = RECENT THEN recentItems
                ELSE listTasks(workspace, hiddenItems, scans[1].element))

\* two scans of the roots ran interleaved after a section was hidden: the
\* second started while the first stood at a suspension point, and both have
\* returned
C30_Witness ==
  /\ scans[1].pc = "returned"
  /\ scans[2].pc = "returned"
  /\ scans[1].element = NoElement
  /\ scans[2].overlapped
  /\ scans[1].seen = Stores
  /\ scans[2].seen = Stores
  /\ hiddenSections # <<>>
  /\ Len(scans[1].result) < Len(getSections(workspace))
====
